---- MODULE Spec2Model ----
(***************************************************************************)
(* Model of the DevDebt code-sprawl analysis engine: the per-file scoring  *)
(* pipeline analyzeFile with its calculators, and the run coordinator      *)
(* (clone, enumerate, cloc, per-file loop, averages, and what ends the      *)
(* run).  The repository holds the engine in two copies:                   *)
(*   "service"    src/src/services/analyzer.js, analyzeRepo: structural    *)
(*                and text calculators, cleanup in a finally block, the    *)
(*                result returned to the caller;                           *)
(*   "container"  src/docker/analyzer/analyze.js, main: text calculators   *)
(*                only, no cleanup, the result printed to stdout or the    *)
(*                process ended with exit code 1.                          *)
(* Steps 1 to 5 of the run are the same statements in both copies.         *)
(* Spec runs either copy directly; DockerSpec runs the container copy      *)
(* under runDockerAnalysis (src/src/services/docker.js); CalcSpec applies  *)
(* the calculators of the copies to one content; RaceSpec runs two calls   *)
(* of analyzeRepo side by side; ScanSpec and ScanLiveSpec follow one scan  *)
(* from the trigger route (routes/scans) through the queue to scanWorker.  *)
(*                                                                         *)
(* A file content is a sequence of tokens: the newline "\n", or a "line     *)
(* kind", a name standing for the text of one concrete line of JavaScript  *)
(* (see LineKinds).  Line texts are always separated by newlines.  What a  *)
(* regular expression of the source matches on a line, and which           *)
(* syntax-tree nodes acorn produces for it, is tabulated per line kind     *)
(* (RegexHits, Nodes).                                                     *)
(* JavaScript numbers are modelled as exact non-negative rationals <<n,d>>.*)
(***************************************************************************)
EXTENDS Integers, Sequences, FiniteSets, TLC

(***************************************************************************)
(* The state of one run of analyzeRepo (service) or main (container).      *)
(***************************************************************************)
VARIABLES
    copy,             \* the copy of the engine that runs
    pc,               \* the position of the run in analyzeRepo or main
    repo,             \* the files of the checkout, in glob's order
    workDirExists,    \* whether workDir is on disk
    files,            \* const files: the enumerated paths
    idx,              \* the position of the per-file loop in files
    clocData,         \* "parsed" or "empty"
    results,          \* const results, Null before step 4
    totalComplexity,  \* let totalComplexity
    totalDebt,        \* let totalDebt
    errorLog,         \* the paths console.error reported as failed
    pending,          \* the completion of the try block
    outcome,          \* what the caller of analyzeRepo has received, or
                      \* what the container process has ended with
    cleanupRuns,      \* executions of the finally block
    rmCalls,          \* calls of fs.rmSync
    existedAtCleanup, \* what fs.existsSync(workDir) answered
    invocations,      \* history: how often the run has invoked git clone,
                      \* glob and cloc, and the paths it has read and
                      \* handed to analyzeFile, in order
    hostPc,           \* the position of runDockerAnalysis ("none": the
                      \* engine was started directly)
    container,        \* the analysis container: "absent", "running",
                      \* "removed"
    execResult,       \* what execAsync(docker run ...) settled with
    rmForced,         \* how `docker rm -f` of the catch block ended:
                      \* "none", "removed", "noSuchContainer", "failed"
    hostOutcome,      \* what the caller of runDockerAnalysis has received
    vocabulary,       \* the lines the content under the calculators is
                      \* written with
    input,            \* the lines of the content under the calculators
    scores,           \* what the calculators gave for it, Null before
    now,              \* Date.now(), in milliseconds
    runPc,            \* the position of each of two calls of analyzeRepo
    workDir,          \* const workDir of each call: the number in its name
    dirOwner,         \* per directory name, the call whose clone made the
                      \* directory on disk, 0 when it is not on disk
    interfered,       \* history: the calls whose directory another call
                      \* removed while they were cloning into or reading it
    scanStatus,       \* the status column of the scan record, "none"
                      \* before the record exists
    enqueueTask,      \* the promise of getScanQueue().add: "none",
                      \* "pending", "resolved", "rejected"
    timedOut,         \* whether the 2-second timeoutPromise has rejected
                      \* before enqueueTask settled
    jobState,         \* the job in the queue: "none", "waiting", "active",
                      \* "completed", "failed"
    stalledCount,     \* how often the queue has moved the job back to
                      \* waiting because its worker was gone
    workerPc,         \* the position of scanWorker's processor
    analysisResults,  \* the number of records in analysisResults.files,
                      \* -1 before runDockerAnalysis has returned
    stored,           \* the records of analysisResults.files the loop has
                      \* created a DebtMetric row for
    summaryStored,    \* whether this run of the processor has written the
                      \* summary columns
    rows,             \* the DebtMetric rows of the scan
    analysisThrew,    \* history: runDockerAnalysis has thrown for the scan
    writeFailed       \* history: the update to FAILED has itself thrown

vars ==
    <<copy, pc, repo, workDirExists, files, idx, clocData, results, totalComplexity,
      totalDebt, errorLog, pending, outcome, cleanupRuns, rmCalls,
      existedAtCleanup, invocations, hostPc, container, execResult,
      rmForced, hostOutcome, vocabulary, input, scores, now, runPc, workDir,
      dirOwner, interfered, scanStatus, enqueueTask, timedOut, jobState,
      stalledCount, workerPc, analysisResults, stored, summaryStored, rows,
      analysisThrew, writeFailed>>

engineVars ==
    <<copy, pc, repo, workDirExists, files, idx, clocData, results,
      totalComplexity, totalDebt, errorLog, pending, outcome, cleanupRuns,
      rmCalls, existedAtCleanup, invocations>>

hostVars ==
    <<hostPc, container, execResult, rmForced, hostOutcome>>

calcVars ==
    <<vocabulary, input, scores>>

raceVars ==
    <<now, runPc, workDir, dirOwner, interfered>>

scanVars ==
    <<scanStatus, enqueueTask, timedOut, jobState, stalledCount, workerPc,
      analysisResults, stored, summaryStored, rows, analysisThrew,
      writeFailed>>

(***************************************************************************)
(* Exact rational arithmetic (stands for the double arithmetic of the      *)
(* source).                                                                *)
(***************************************************************************)
RECURSIVE GCD(_, _)
GCD(a, b) ==
    IF b = 0 THEN a ELSE GCD(b, a % b)

Rat(n, d) ==
    LET g == GCD(n, d) IN <<n \div g, d \div g>>

RInt(n) ==
    <<n, 1>>

RatAdd(x, y) ==
    Rat(x[1] * y[2] + y[1] * x[2], x[2] * y[2])

RatMul(x, y) ==
    Rat(x[1] * y[1], x[2] * y[2])

RatDiv(x, y) ==
    Rat(x[1] * y[2], x[2] * y[1])

RatLT(x, y) ==
    x[1] * y[2] < y[1] * x[2]

RatGT(x, y) ==
    RatLT(y, x)

RatMin(x, y) ==
    IF RatLT(y, x) THEN y ELSE x

RatMax(x, y) ==
    IF RatLT(x, y) THEN y ELSE x

\* Math.round(x): the nearest integer, halves rounded up.
MathRound(x) ==
    (2 * x[1] + x[2]) \div (2 * x[2])

\* Math.round(x * 100) / 100
Round2(x) ==
    Rat(MathRound(RatMul(x, RInt(100))), 100)

RECURSIVE SumRat(_)
SumRat(s) ==
    IF s = <<>> THEN RInt(0) ELSE RatAdd(Head(s), SumRat(Tail(s)))

RECURSIVE SumInt(_)
SumInt(s) ==
    IF s = <<>> THEN 0 ELSE Head(s) + SumInt(Tail(s))

\* The sum of the values of a function with a finite domain.
RECURSIVE SumValues(_)
SumValues(f) ==
    IF DOMAIN f = {} THEN 0
    ELSE LET k == CHOOSE x \in DOMAIN f : TRUE
         IN  f[k] + SumValues([j \in DOMAIN f \ {k} |-> f[j]])

RECURSIVE Flatten(_)
Flatten(ss) ==
    IF ss = <<>> THEN <<>> ELSE Head(ss) \o Flatten(Tail(ss))

\* Number of elements of the sequence s that equal x.
CountOf(s, x) ==
    Cardinality({i \in 1..Len(s) : s[i] = x})

MaxOf(S) ==
    CHOOSE m \in S : \A x \in S : x <= m

(***************************************************************************)
(* The lexicon: the lines a source file is made of.                        *)
(*   ""        (the empty line)                                            *)
(*   stmt      x = 1;                                                      *)
(*   long      total = total + 1;                                          *)
(*   longws    total  =  total  +  1;     (same text, wider spacing)       *)
(*   nested    <20 spaces>total = total + 1;                               *)
(*   if        if(a)b();                                                   *)
(*   ifand     if(a&&b)c;                                                  *)
(*   trycatch  try{a()}catch(e){}                                          *)
(*   import    import a from 'a';                                          *)
(*   require   const b = require('b');                                     *)
(*   dynreq    require(name);                                              *)
(*   class     class A {}                                                  *)
(*   func      function f(){}                                              *)
(*   func2     function g(a,b){}                                           *)
(*   arrow     const h = (a) => a;                                         *)
(*   push      items.push(x);                                              *)
(*   ts        let x: number = 1;         (TypeScript: acorn rejects it)   *)
(*   todo      // TODO: implement                                          *)
(*   fetch     await fetch(url);                                           *)
(*   while     while(a){b()}                                               *)
(*   elseif    if(a)b();else if(c)d();                                     *)
(*   for       for(;a;){b()}                                               *)
(*   switch    switch(a){case 1:b()}                                       *)
(*   ternary   x = a ? b : c;                                              *)
(*   ternary2  x = a ? b : (c ? d : e);                                    *)
(*   ifor      if(a||b)c;                                                  *)
(*   importbare  import 'a';                                               *)
(*   anys      // any any any                                              *)
(*   blockcomment  /* total = total + 1 */                                 *)
(*   wide      x  =        1;             (stmt with wider spacing)        *)
(*   classm1   class C { m(){} }                                           *)
(*   classm2   class D { m(){} n(){} }                                     *)
(*   thisassign  this.x = 1;                                               *)
(*   httpget   api.get(url);                                               *)
(*   funcs3    function p(){} function q(){} function r(){}                *)
(***************************************************************************)
LineKinds ==
    {"", "stmt", "long", "longws", "nested", "if", "ifand", "trycatch",
     "import", "require", "dynreq", "class", "func", "func2", "arrow", "push",
     "ts", "todo", "fetch", "while", "elseif", "for", "switch", "ternary",
     "ternary2", "ifor", "importbare", "anys", "blockcomment", "wide",
     "classm1", "classm2", "thisassign", "httpget", "funcs3"}

\* Mutant of Split: a newline ending the content opens no further line.
RECURSIVE SplitTerminated(_)
SplitTerminated(content) ==
    IF content = <<>> THEN <<"">>
    ELSE IF Head(content) = "\n"
         THEN IF Tail(content) \in {<<>>, <<"">>} THEN <<"">>
              ELSE <<"">> \o SplitTerminated(Tail(content))
    ELSE IF Len(content) = 1 THEN <<Head(content)>>
    ELSE IF Tail(Tail(content)) \in {<<>>, <<"">>} THEN <<Head(content)>>
    ELSE <<Head(content)>> \o SplitTerminated(Tail(Tail(content)))

\* content.split('\n'): the lines of a content, one more than its newlines.
RECURSIVE Split(_)
Split(content) ==
    IF content = <<>> THEN <<"">>
    ELSE IF Head(content) = "\n" THEN <<"">> \o Split(Tail(content))
    ELSE IF Len(content) = 1 THEN <<Head(content)>>
    ELSE <<Head(content)>> \o Split(Tail(Tail(content)))

\* l.trim(): the line without its leading and trailing whitespace.
Trim(l) ==
    IF l = "nested" THEN "long" ELSE l

\* l.replace(/\s+/g, ' '): every whitespace run collapsed to one space.
CollapseWs(l) ==
    CASE l = "longws" -> "long"
      [] l = "wide" -> "stmt"
      [] OTHER -> l

\* l.length of a trimmed line.
Length(l) ==
    CASE l = "stmt" -> 6
      [] l = "long" -> 18
      [] l = "longws" -> 22
      [] l = "if" -> 9
      [] l = "ifand" -> 10
      [] l = "trycatch" -> 18
      [] l = "import" -> 18
      [] l = "require" -> 23
      [] l = "dynreq" -> 14
      [] l = "class" -> 10
      [] l = "func" -> 14
      [] l = "func2" -> 17
      [] l = "arrow" -> 19
      [] l = "push" -> 14
      [] l = "ts" -> 18
      [] l = "todo" -> 18
      [] l = "fetch" -> 17
      [] l = "while" -> 13
      [] l = "elseif" -> 23
      [] l = "for" -> 13
      [] l = "switch" -> 21
      [] l = "ternary" -> 14
      [] l = "ternary2" -> 24
      [] l = "ifor" -> 10
      [] l = "importbare" -> 11
      [] l = "anys" -> 14
      [] l = "blockcomment" -> 23
      [] l = "wide" -> 14
      [] l = "classm1" -> 17
      [] l = "classm2" -> 23
      [] l = "thisassign" -> 11
      [] l = "httpget" -> 13
      [] l = "funcs3" -> 44
      [] OTHER -> 0

\* l.startsWith(prefix) for a trimmed line.
StartsWith(l, prefix) ==
    \/ prefix = "//" /\ l \in {"todo", "anys"}
    \/ prefix = "import" /\ l \in {"import", "importbare"}

\* line.match(/^(\s*)/)[1].length: the width of the leading whitespace.
Indent(l) ==
    IF l = "nested" THEN 20 ELSE 0

\* The matches each regular expression of the source finds on a line, by the
\* name of the expression.
RegexHits(l) ==
    CASE l = "if" -> <<"if">>
      [] l = "ifand" -> <<"if", "&&">>
      [] l = "trycatch" -> <<"catch">>
      [] l = "import" -> <<"import">>
      [] l = "require" -> <<"require">>
      [] l \in {"func", "func2", "arrow"} -> <<"functionDef">>
      [] l = "funcs3" -> <<"functionDef", "functionDef", "functionDef">>
      [] l = "httpget" -> <<"http">>
      [] l = "push" -> <<"state">>
      [] l = "todo" -> <<"TODO">>
      [] l = "fetch" -> <<"await">>
      [] l = "while" -> <<"while", "classMethod">>
      [] l = "elseif" -> <<"if", "if", "elseif">>
      [] l = "for" -> <<"for", "classMethod">>
      [] l = "switch" -> <<"case", "classMethod">>
      [] l \in {"ternary", "ternary2"} -> <<"ternary">>
      [] l = "ifor" -> <<"if", "||">>
      [] l = "anys" -> <<"any", "any", "any">>
      [] OTHER -> <<>>

\* The names /\b(axios|fetch|http|fs|path|prisma|socket|redis|mongo)\b/gi
\* matches on a line, lowercased.
ExternalRefs(l) ==
    IF l = "fetch" THEN {"fetch"} ELSE {}

\* The signatures function\s+\w+\s*\([^)]*\) matches on a line, each by the
\* parenthesised parameter list sig.match(/\([^)]*\)/)[0] it carries: the
\* number of commas in it and its length.
FunctionSignatures(l) ==
    CASE l = "func" -> <<[commas |-> 0, length |-> 2]>>
      [] l = "func2" -> <<[commas |-> 1, length |-> 5]>>
      [] l = "funcs3" -> <<[commas |-> 0, length |-> 2],
                           [commas |-> 0, length |-> 2],
                           [commas |-> 0, length |-> 2]>>
      [] OTHER -> <<>>

\* The signatures const\s+\w+\s*=\s*\([^)]*\)\s*=> matches on a line.
ArrowFunctions(l) ==
    IF l = "arrow" THEN <<[commas |-> 0, length |-> 3]>> ELSE <<>>

Node(type, attr) ==
    [type |-> type, attr |-> attr]

\* The syntax-tree nodes acorn builds for a line, in the order walk.simple
\* visits them.  attr: the operator of a LogicalExpression, the callee.name
\* of a CallExpression.
Nodes(l) ==
    CASE l \in {"stmt", "long", "longws", "nested", "wide"} ->
            <<Node("ExpressionStatement", ""), Node("AssignmentExpression", "")>>
      [] l = "if" ->
            <<Node("IfStatement", ""), Node("CallExpression", "b")>>
      [] l = "ifand" ->
            <<Node("IfStatement", ""), Node("LogicalExpression", "&&")>>
      [] l = "trycatch" ->
            <<Node("TryStatement", ""), Node("CallExpression", "a"),
              Node("CatchClause", "")>>
      [] l = "import" -> <<Node("ImportDeclaration", "")>>
      [] l = "require" ->
            <<Node("VariableDeclaration", ""), Node("CallExpression", "require")>>
      [] l = "dynreq" ->
            <<Node("ExpressionStatement", ""), Node("CallExpression", "require")>>
      [] l = "class" -> <<Node("ClassDeclaration", "")>>
      [] l \in {"func", "func2"} -> <<Node("FunctionDeclaration", "")>>
      [] l = "arrow" ->
            <<Node("VariableDeclaration", ""), Node("ArrowFunctionExpression", "")>>
      [] l = "push" ->
            <<Node("ExpressionStatement", ""), Node("CallExpression", "")>>
      [] l = "fetch" ->
            <<Node("ExpressionStatement", ""), Node("AwaitExpression", ""),
              Node("CallExpression", "fetch")>>
      [] l = "while" ->
            <<Node("WhileStatement", ""), Node("CallExpression", "b")>>
      [] l = "elseif" ->
            <<Node("IfStatement", ""), Node("CallExpression", "b"),
              Node("IfStatement", ""), Node("CallExpression", "d")>>
      [] l = "for" ->
            <<Node("ForStatement", ""), Node("CallExpression", "b")>>
      [] l = "switch" ->
            <<Node("SwitchStatement", ""), Node("SwitchCase", "test"),
              Node("CallExpression", "b")>>
      [] l = "ternary" ->
            <<Node("ExpressionStatement", ""), Node("AssignmentExpression", ""),
              Node("ConditionalExpression", "")>>
      [] l = "ternary2" ->
            <<Node("ExpressionStatement", ""), Node("AssignmentExpression", ""),
              Node("ConditionalExpression", ""),
              Node("ConditionalExpression", "")>>
      [] l = "ifor" ->
            <<Node("IfStatement", ""), Node("LogicalExpression", "||")>>
      [] l = "importbare" -> <<Node("ImportDeclaration", "")>>
      [] l = "classm1" ->
            <<Node("ClassDeclaration", ""), Node("MethodDefinition", ""),
              Node("FunctionExpression", "")>>
      [] l = "classm2" ->
            <<Node("ClassDeclaration", ""),
              Node("MethodDefinition", ""), Node("FunctionExpression", ""),
              Node("MethodDefinition", ""), Node("FunctionExpression", "")>>
      [] l = "thisassign" ->
            <<Node("ExpressionStatement", ""), Node("AssignmentExpression", "this")>>
      [] l = "httpget" ->
            <<Node("ExpressionStatement", ""), Node("CallExpression", "")>>
      [] l = "funcs3" ->
            <<Node("FunctionDeclaration", ""), Node("FunctionDeclaration", ""),
              Node("FunctionDeclaration", "")>>
      [] OTHER -> <<>>

\* Whether acorn accepts the line.
Parses(l) ==
    l # "ts"

\* The names a line declares in the scope of the module (class, function,
\* const and import bindings); acorn rejects a module that declares a name
\* twice ("Identifier has already been declared").
Declares(l) ==
    CASE l = "import" -> {"a"}
      [] l = "require" -> {"b"}
      [] l = "class" -> {"A"}
      [] l = "classm1" -> {"C"}
      [] l = "classm2" -> {"D"}
      [] l = "func" -> {"f"}
      [] l = "func2" -> {"g"}
      [] l = "arrow" -> {"h"}
      [] l = "funcs3" -> {"p", "q", "r"}
      [] OTHER -> {}

(***************************************************************************)
(* The calculators of the service copy; calculateDuplicationRatio,         *)
(* calculateAIEntropyFactor and hasDeepNesting are the same code in both   *)
(* copies.                                                                 *)
(***************************************************************************)
Null ==
    [null |-> TRUE]

\* content.match(pattern).length, or 0 when there is no match: the number of
\* matches of the named expression in the whole content.
MatchCount(content, pattern) ==
    LET lines == Split(content)
        hits == Flatten([i \in 1..Len(lines) |-> RegexHits(lines[i])])
    IN  CountOf(hits, pattern)

\* content.length: the characters of a content, newlines included.
CharCount(content) ==
    SumInt([i \in 1..Len(content) |->
               IF content[i] = "\n" THEN 1
               ELSE Indent(content[i]) + Length(Trim(content[i]))])

\* acorn.parse(content, ...): the tree, or Null where acorn throws.  The
\* Program node spans the whole input: start 0, end content.length.
AcornParse(content) ==
    LET lines == Split(content)
    IN  IF /\ \A i \in 1..Len(lines) : Parses(lines[i])
           /\ \A i, j \in 1..Len(lines) :
                  i # j => Declares(lines[i]) \cap Declares(lines[j]) = {}
        THEN [type |-> "Program",
              start |-> 0,
              end |-> CharCount(content),
              body |-> Flatten([i \in 1..Len(lines) |-> Nodes(lines[i])])]
        ELSE Null

\* walk.simple(ast, visitors) calls the visitor of its type on every node of
\* the tree; each visitor below gives the amount it adds to the accumulator
\* of its calculator.
ComplexityVisitor(node) ==
    CASE node.type \in {"IfStatement", "ForStatement", "ForInStatement",
                        "ForOfStatement", "WhileStatement", "DoWhileStatement",
                        "ConditionalExpression"} -> 1
      [] node.type = "SwitchCase" -> IF node.attr = "test" THEN 1 ELSE 0
      [] node.type = "LogicalExpression" ->
            IF node.attr = "||" \/ node.attr = "&&" THEN 1 ELSE 0
      [] OTHER -> 0

calculateComplexityAST(ast) ==
    RInt(1 + SumInt([i \in 1..Len(ast.body) |-> ComplexityVisitor(ast.body[i])]))

\* The responsibility weights are counted in tenths.
ResponsibilityVisitor(node) ==
    CASE node.type \in {"FunctionDeclaration", "FunctionExpression",
                        "ArrowFunctionExpression"} -> 5
      [] node.type = "ClassDeclaration" -> 10
      [] node.type = "MethodDefinition" -> 3
      [] node.type = "AssignmentExpression" ->
            IF node.attr = "this" THEN 2 ELSE 0
      [] OTHER -> 0

IDEAL_RESPONSIBILITIES ==
    2

\* Mutant of calculateResponsibilityAST: no floor of 1 under the count.
calculateResponsibilityASTUnclamped(ast) ==
    LET responsibilities ==
            Rat(SumInt([i \in 1..Len(ast.body) |->
                           ResponsibilityVisitor(ast.body[i])]), 10)
    IN  RatDiv(responsibilities, RInt(IDEAL_RESPONSIBILITIES))

calculateResponsibilityAST(ast) ==
    LET responsibilities ==
            Rat(SumInt([i \in 1..Len(ast.body) |->
                           ResponsibilityVisitor(ast.body[i])]), 10)
    IN  RatDiv(RatMax(RInt(1), responsibilities), RInt(IDEAL_RESPONSIBILITIES))

CouplingVisitor(node) ==
    CASE node.type = "ImportDeclaration" -> 1
      [] node.type = "CallExpression" -> IF node.attr = "require" THEN 1 ELSE 0
      [] OTHER -> 0

MAX_ALLOWED_DEPENDENCIES ==
    5

\* Mutant of calculateCouplingAST: calls of require not counted.
calculateCouplingASTImportsOnly(ast) ==
    Rat(Cardinality({i \in 1..Len(ast.body) :
                        ast.body[i].type = "ImportDeclaration"}),
        MAX_ALLOWED_DEPENDENCIES)

calculateCouplingAST(ast) ==
    Rat(SumInt([i \in 1..Len(ast.body) |-> CouplingVisitor(ast.body[i])]),
        MAX_ALLOWED_DEPENDENCIES)

ComplexityPatterns ==
    <<"if", "elseif", "for", "while", "case", "catch", "ternary", "&&", "||">>

\* Mutant of calculateComplexityRegex: the pattern /\belse\s+if\b/ left out.
calculateComplexityRegexWithoutElseIf(content) ==
    RInt(1 + SumInt([k \in 1..Len(ComplexityPatterns) |->
                        IF ComplexityPatterns[k] = "elseif" THEN 0
                        ELSE MatchCount(content, ComplexityPatterns[k])]))

calculateComplexityRegex(content) ==
    RInt(1 + SumInt([k \in 1..Len(ComplexityPatterns) |->
                        MatchCount(content, ComplexityPatterns[k])]))

calculateResponsibilityRegex(content) ==
    LET responsibilities ==
            Rat(MatchCount(content, "functionDef") * 5
                + MatchCount(content, "http") * 3
                + MatchCount(content, "state") * 2, 10)
    IN  RatDiv(RatMax(RInt(1), responsibilities), RInt(IDEAL_RESPONSIBILITIES))

calculateCouplingRegex(content) ==
    Rat(MatchCount(content, "import") + MatchCount(content, "require"),
        MAX_ALLOWED_DEPENDENCIES)

\* The calculators of the container copy.
\* The decision points of the text, per 100 lines.
calculateCyclomaticComplexity(content) ==
    LET complexity ==
            1 + SumInt([k \in 1..Len(ComplexityPatterns) |->
                           MatchCount(content, ComplexityPatterns[k])])
        loc == Len(Split(content))
    IN  Rat(complexity * 100, loc)

calculateResponsibilityScore(content) ==
    LET responsibilities ==
            Rat(MatchCount(content, "functionDef") * 5
                + MatchCount(content, "http") * 3
                + MatchCount(content, "state") * 2
                + MatchCount(content, "await") * 1
                + MatchCount(content, "classMethod") * 3, 10)
    IN  RatDiv(RatMax(RInt(1), responsibilities), RInt(IDEAL_RESPONSIBILITIES))

calculateCouplingScore(content) ==
    LET lines == Split(content)
        externalRefs == UNION {ExternalRefs(lines[i]) : i \in 1..Len(lines)}
        totalDependencies ==
            MatchCount(content, "import") + MatchCount(content, "require")
            + Cardinality(externalRefs)
    IN  Rat(totalDependencies, MAX_ALLOWED_DEPENDENCIES)

\* The lines that count for duplication, trimmed.
EligibleLines(content) ==
    LET split == Split(content)
        trimmed == [i \in 1..Len(split) |-> Trim(split[i])]
    IN  SelectSeq(trimmed, LAMBDA l : /\ Length(l) > 10
                                      /\ ~StartsWith(l, "//")
                                      /\ ~StartsWith(l, "*")
                                      /\ ~StartsWith(l, "import"))

\* Mutant of calculateDuplicationRatio: every line of a repeated group
\* counted as duplicated, the first one included.
calculateDuplicationRatioCountingFirst(content) ==
    LET lines == EligibleLines(content)
        normalized == [i \in 1..Len(lines) |-> CollapseWs(lines[i])]
        keys == {normalized[i] : i \in 1..Len(lines)}
        lineFrequency == [k \in keys |-> CountOf(normalized, k)]
        duplicatedLines ==
            SumValues([k \in keys |->
                IF lineFrequency[k] > 1 THEN lineFrequency[k] ELSE 0])
    IN  IF Len(lines) = 0 THEN RInt(0)
        ELSE Rat(duplicatedLines, Len(lines))

calculateDuplicationRatio(content) ==
    LET lines == EligibleLines(content)
        normalized == [i \in 1..Len(lines) |-> CollapseWs(lines[i])]
        keys == {normalized[i] : i \in 1..Len(lines)}
        lineFrequency == [k \in keys |-> CountOf(normalized, k)]
        duplicatedLines ==
            SumValues([k \in keys |->
                IF lineFrequency[k] > 1 THEN lineFrequency[k] - 1 ELSE 0])
    IN  IF Len(lines) = 0 THEN RInt(0)
        ELSE Rat(duplicatedLines, Len(lines))

AiPatterns ==
    <<"TODO", "ellipsis", "debuglog", "any", "jsdoc", "notimpl", "eslint">>

\* paramCount of one signature: the commas of its parameter list, plus one
\* when the list is longer than "()".
ParamCount(sig) ==
    sig.commas + (IF sig.length > 2 THEN 1 ELSE 0)

\* Mutant of calculateAIEntropyFactor: the sum returned without Math.min.
calculateAIEntropyFactorUnclamped(content) ==
    LET lines == Split(content)
        loc == Len(lines)
        patternCount ==
            SumInt([k \in 1..Len(AiPatterns) |-> MatchCount(content, AiPatterns[k])])
        functionSignatures ==
            Flatten([i \in 1..Len(lines) |-> FunctionSignatures(lines[i])])
        arrowFunctions ==
            Flatten([i \in 1..Len(lines) |-> ArrowFunctions(lines[i])])
        allSignatures == functionSignatures \o arrowFunctions
        paramCounts == [i \in 1..Len(allSignatures) |-> ParamCount(allSignatures[i])]
        buckets == {paramCounts[i] : i \in 1..Len(allSignatures)}
        signaturePatterns ==
            [b \in buckets |-> CountOf(paramCounts, b)]
        values == {signaturePatterns[b] : b \in buckets}
        signatureSimilarity ==
            IF Cardinality(values) > 0 /\ Len(allSignatures) > 3
            THEN RatMul(Rat(MaxOf(values), Len(allSignatures)), Rat(3, 10))
            ELSE RInt(0)
        unusedRatio == RatMul(Rat(patternCount, loc), Rat(1, 2))
    IN  IF loc = 0 THEN RInt(0)
        ELSE RatAdd(unusedRatio, signatureSimilarity)

calculateAIEntropyFactor(content) ==
    LET lines == Split(content)
        loc == Len(lines)
        patternCount ==
            SumInt([k \in 1..Len(AiPatterns) |-> MatchCount(content, AiPatterns[k])])
        functionSignatures ==
            Flatten([i \in 1..Len(lines) |-> FunctionSignatures(lines[i])])
        arrowFunctions ==
            Flatten([i \in 1..Len(lines) |-> ArrowFunctions(lines[i])])
        allSignatures == functionSignatures \o arrowFunctions
        paramCounts == [i \in 1..Len(allSignatures) |-> ParamCount(allSignatures[i])]
        buckets == {paramCounts[i] : i \in 1..Len(allSignatures)}
        signaturePatterns ==
            [b \in buckets |-> CountOf(paramCounts, b)]
        values == {signaturePatterns[b] : b \in buckets}
        signatureSimilarity ==
            IF Cardinality(values) > 0 /\ Len(allSignatures) > 3
            THEN RatMul(Rat(MaxOf(values), Len(allSignatures)), Rat(3, 10))
            ELSE RInt(0)
        unusedRatio == RatMul(Rat(patternCount, loc), Rat(1, 2))
    IN  IF loc = 0 THEN RInt(0)
        ELSE RatMin(Rat(1, 2), RatAdd(unusedRatio, signatureSimilarity))

hasDeepNesting(content) ==
    LET lines == Split(content)
    IN  \E i \in 1..Len(lines) : Indent(lines[i]) > 16

(***************************************************************************)
(* analyzeFile: the score of one file, or Null for a file below the floor. *)
(***************************************************************************)
MIN_LOC ==
    5

IDEAL_LOC ==
    30

CC_MAX ==
    10

\* complexityScore of analyzeFile.
ComplexityScore(cyclomaticComplexity) ==
    RatDiv(cyclomaticComplexity, RInt(CC_MAX))

weights ==
    [size |-> Rat(25, 100), complexity |-> Rat(30, 100),
     duplication |-> Rat(20, 100), responsibility |-> Rat(15, 100),
     coupling |-> Rat(10, 100)]

\* The three metrics that depend on the analysis mode.
\* Mutant of cyclomaticComplexityOf: the decision-point counter is shared
\* by all files of the run and never reset.
cyclomaticComplexityCarried(ast, content) ==
    RatAdd(totalComplexity,
           IF ast # Null THEN calculateComplexityAST(ast)
           ELSE calculateComplexityRegex(content))

cyclomaticComplexityOf(ast, content) ==
    IF ast # Null THEN calculateComplexityAST(ast)
    ELSE calculateComplexityRegex(content)

responsibilityScoreOf(ast, content) ==
    IF ast # Null THEN calculateResponsibilityAST(ast)
    ELSE calculateResponsibilityRegex(content)

\* Mutant of couplingScoreOf: coupling always taken from the text.
couplingScoreTextOnly(ast, content) ==
    calculateCouplingRegex(content)

couplingScoreOf(ast, content) ==
    IF ast # Null THEN calculateCouplingAST(ast)
    ELSE calculateCouplingRegex(content)

\* sprawlScore of analyzeFile: the weighted combination before the entropy
\* penalty, from the three metrics the copies compute differently.
SprawlScore(content, cyclomaticComplexity, responsibilityScore, couplingScore) ==
    LET normalizedLOC == Rat(Len(Split(content)), IDEAL_LOC)
        complexityScore == ComplexityScore(cyclomaticComplexity)
    IN  SumRat(<<RatMul(weights.size, normalizedLOC),
                 RatMul(weights.complexity, complexityScore),
                 RatMul(weights.duplication, calculateDuplicationRatio(content)),
                 RatMul(weights.responsibility, responsibilityScore),
                 RatMul(weights.coupling, couplingScore)>>)

\* Mutant of AdjustedSprawlScore: the entropy factor added, not multiplied.
AdjustedSprawlScoreAdding(content, cyclomaticComplexity, responsibilityScore, couplingScore) ==
    RatAdd(SprawlScore(content, cyclomaticComplexity, responsibilityScore,
                       couplingScore),
           calculateAIEntropyFactor(content))

AdjustedSprawlScore(content, cyclomaticComplexity, responsibilityScore, couplingScore) ==
    RatMul(SprawlScore(content, cyclomaticComplexity, responsibilityScore,
                       couplingScore),
           RatAdd(RInt(1), calculateAIEntropyFactor(content)))

\* Mutant of SprawlLevel: the thresholds compared with <= instead of <.
SprawlLevelInclusive(adjustedSprawlScore) ==
    IF ~RatGT(adjustedSprawlScore, Rat(8, 10)) THEN "clean"
    ELSE IF ~RatGT(adjustedSprawlScore, Rat(12, 10)) THEN "mild"
    ELSE IF ~RatGT(adjustedSprawlScore, Rat(16, 10)) THEN "high"
    ELSE "severe"

\* Mutant of SprawlLevel: the level taken from the score rounded to 2
\* decimals.
SprawlLevelOfRounded(adjustedSprawlScore) ==
    IF RatLT(Round2(adjustedSprawlScore), Rat(8, 10)) THEN "clean"
    ELSE IF RatLT(Round2(adjustedSprawlScore), Rat(12, 10)) THEN "mild"
    ELSE IF RatLT(Round2(adjustedSprawlScore), Rat(16, 10)) THEN "high"
    ELSE "severe"

SprawlLevel(adjustedSprawlScore) ==
    IF RatLT(adjustedSprawlScore, Rat(8, 10)) THEN "clean"
    ELSE IF RatLT(adjustedSprawlScore, Rat(12, 10)) THEN "mild"
    ELSE IF RatLT(adjustedSprawlScore, Rat(16, 10)) THEN "high"
    ELSE "severe"

\* Mutant of BelowFloor: the floor off by one.
BelowFloorOffByOne(content) ==
    Len(Split(content)) < MIN_LOC - 1

\* Whether analyzeFile returns null for the content.
BelowFloor(content) ==
    Len(Split(content)) < MIN_LOC

\* The record analyzeFile returns, from the three metrics the copies compute
\* differently.
FileRecord(content, filePath, cyclomaticComplexity, responsibilityScore, couplingScore) ==
    LET lines == Split(content)
        loc == Len(lines)
        normalizedLOC == Rat(loc, IDEAL_LOC)
        complexityScore == ComplexityScore(cyclomaticComplexity)
        duplicationRatio == calculateDuplicationRatio(content)
        aiEntropyFactor == calculateAIEntropyFactor(content)
        adjustedSprawlScore ==
            AdjustedSprawlScore(content, cyclomaticComplexity,
                                responsibilityScore, couplingScore)
    IN  [path |-> filePath,
         loc |-> loc,
         metrics |->
             [normalizedLOC |-> Round2(normalizedLOC),
              complexityScore |-> Round2(complexityScore),
              duplicationRatio |-> Round2(duplicationRatio),
              responsibilityScore |-> Round2(responsibilityScore),
              couplingScore |-> Round2(couplingScore),
              aiEntropyFactor |-> Round2(aiEntropyFactor)],
         cyclomaticComplexity |-> Round2(cyclomaticComplexity),
         duplicatedLogicScore |-> MathRound(RatMul(duplicationRatio, RInt(100))),
         aiEntropyScore |-> MathRound(RatMul(aiEntropyFactor, RInt(100))),
         totalDebtScore |-> Round2(adjustedSprawlScore),
         sprawlScore |-> Round2(adjustedSprawlScore),
         sprawlLevel |-> SprawlLevel(adjustedSprawlScore),
         details |->
             [hasLongFunctions |-> loc > 50,
              hasDeepNesting |-> hasDeepNesting(content),
              hasRepetitivePatterns |-> RatGT(duplicationRatio, Rat(1, 10)),
              hasHighCoupling |-> RatGT(couplingScore, RInt(1)),
              hasTooManyResponsibilities |->
                  RatGT(responsibilityScore, Rat(15, 10))]]

\* analyzeFile of the service copy.
analyzeFile(content, filePath) ==
    LET ast == AcornParse(content)
    IN  IF BelowFloor(content) THEN Null
        ELSE FileRecord(content, filePath,
                        cyclomaticComplexityOf(ast, content),
                        responsibilityScoreOf(ast, content),
                        couplingScoreOf(ast, content))

\* analyzeFile of the container copy.
analyzeFileContainer(content, filePath) ==
    IF BelowFloor(content) THEN Null
    ELSE FileRecord(content, filePath,
                    calculateCyclomaticComplexity(content),
                    calculateResponsibilityScore(content),
                    calculateCouplingScore(content))

\* The weighted combination (before the entropy factor) each copy gives a
\* content of 5 lines or more.
SprawlScoreOf(c, content) ==
    LET ast == AcornParse(content)
    IN  IF c = "service"
        THEN SprawlScore(content,
                         cyclomaticComplexityOf(ast, content),
                         responsibilityScoreOf(ast, content),
                         couplingScoreOf(ast, content))
        ELSE SprawlScore(content,
                         calculateCyclomaticComplexity(content),
                         calculateResponsibilityScore(content),
                         calculateCouplingScore(content))

\* The adjusted score each copy gives a content of 5 lines or more.
AdjustedScoreOf(c, content) ==
    LET ast == AcornParse(content)
    IN  IF c = "service"
        THEN AdjustedSprawlScore(content,
                                 cyclomaticComplexityOf(ast, content),
                                 responsibilityScoreOf(ast, content),
                                 couplingScoreOf(ast, content))
        ELSE AdjustedSprawlScore(content,
                                 calculateCyclomaticComplexity(content),
                                 calculateResponsibilityScore(content),
                                 calculateCouplingScore(content))

(***************************************************************************)
(* The repositories a run can meet.  A repository is the sequence of the   *)
(* files glob enumerates in its checkout; a file is readable with a        *)
(* content, or unreadable (readFileSync throws: a directory named like a   *)
(* source file, a dangling link, a file removed after the enumeration).    *)
(***************************************************************************)
MaxFiles ==
    3

Rep(l, n) ==
    [i \in 1..n |-> l]

\* The content made of the given lines, joined by newlines.
RECURSIVE Text(_)
Text(lines) ==
    IF Len(lines) <= 1 THEN lines
    ELSE <<Head(lines), "\n">> \o Text(Tail(lines))

File(content) ==
    [readable |-> TRUE, content |-> content]

Unreadable ==
    [readable |-> FALSE, content |-> <<>>]

\* 4 lines, the last without a newline: below the floor.
ShortFile ==
    Text(Rep("stmt", 4))

\* 4 lines, each ended by a newline.
FourLineFile ==
    Text(Rep("stmt", 4)) \o <<"\n">>

\* 15 lines, 19 decision points: the adjusted score is exactly 0.8.
MildFile ==
    Text(Rep("ifand", 4) \o Rep("if", 11))

\* 27 lines, 29 decision points: the adjusted score is exactly 1.2.
HighFile ==
    Text(Rep("ifand", 2) \o Rep("if", 25))

\* 39 lines, 39 decision points: the adjusted score is exactly 1.6.
SevereFile ==
    Text(Rep("if", 39))

\* A TypeScript file: acorn rejects it and the text calculators score it.
TsFile ==
    Text(<<"ts", "trycatch", "while", "require", "func", "func", "push",
           "push">>)

\* A module acorn parses, on which the structural and the text calculators
\* disagree for complexity, responsibility and coupling.
ModuleFile ==
    Text(<<"import", "dynreq", "fetch", "class", "classm1", "trycatch", "long",
           "longws", "nested">>) \o <<"\n">>

\* A file of function signatures and an unfinished-work marker.
StubFile ==
    Text(<<"todo", "func", "func", "func2", "arrow", "stmt">>)

Contents ==
    {ShortFile, FourLineFile, MildFile, HighFile, SevereFile, TsFile, ModuleFile,
     StubFile}

FileEntries ==
    {File(c) : c \in Contents} \cup {Unreadable}

Repos ==
    UNION {[1..n -> FileEntries] : n \in 0..MaxFiles}

(***************************************************************************)
(* The run: analyzeRepo of the service copy, main of the container copy.   *)
(***************************************************************************)
Copies ==
    {"service", "container"}

NoCompletion ==
    [kind |-> "none", value |-> Null, error |-> ""]

Return(value) ==
    [kind |-> "return", value |-> value, error |-> ""]

Throw(error) ==
    [kind |-> "throw", value |-> Null, error |-> error]

\* console.log(JSON.stringify(results)): the result on stdout, exit code 0.
Printed(value) ==
    [kind |-> "print", value |-> value, error |-> ""]

\* process.exit(1) after the message of the error on stderr.
Exit(error) ==
    [kind |-> "exit", value |-> Null, error |-> error]

\* The two calls of analyzeRepo that RaceSpec follows.
Runs ==
    {1, 2}

MaxClock ==
    2

\* No call of analyzeRepo has been made.
NoRuns ==
    /\ now = 0
    /\ runPc = [r \in Runs |-> "idle"]
    /\ workDir = [r \in Runs |-> -1]
    /\ dirOwner = [d \in 0..MaxClock |-> 0]
    /\ interfered = {}

\* No scan has been triggered.
NoScan ==
    /\ scanStatus = "none"
    /\ enqueueTask = "none"
    /\ timedOut = FALSE
    /\ jobState = "none"
    /\ stalledCount = 0
    /\ workerPc = "idle"
    /\ analysisResults = -1
    /\ stored = 0
    /\ summaryStored = FALSE
    /\ rows = 0
    /\ analysisThrew = FALSE
    /\ writeFailed = FALSE

Init ==
    /\ copy \in Copies
    /\ pc = "clone"
    /\ repo = <<>>
    /\ workDirExists = FALSE
    /\ files = <<>>
    /\ idx = 0
    /\ clocData = "empty"
    /\ results = Null
    /\ totalComplexity = RInt(0)
    /\ totalDebt = RInt(0)
    /\ errorLog = {}
    /\ pending = NoCompletion
    /\ outcome = NoCompletion
    /\ cleanupRuns = 0
    /\ rmCalls = 0
    /\ existedAtCleanup = FALSE
    /\ invocations = [clone |-> 0, glob |-> 0, cloc |-> 0,
                      read |-> <<>>, analyze |-> <<>>]
    /\ hostPc = "none"
    /\ container = "absent"
    /\ execResult = NoCompletion
    /\ rmForced = "none"
    /\ hostOutcome = NoCompletion
    /\ vocabulary = "none"
    /\ input = <<>>
    /\ scores = Null
    /\ NoRuns
    /\ NoScan

\* Where an exception that leaves the try block is handled: the finally
\* block of analyzeRepo, the catch block of main.
Handler ==
    IF copy = "service" THEN "finally" ELSE "catch"

\* Step 1, git clone succeeds: the checkout is on disk.
CloneOk ==
    /\ pc = "clone"
    /\ \E r \in Repos : repo' = r
    /\ workDirExists' = TRUE
    /\ pc' = "glob"
    /\ UNCHANGED <<copy, files, idx, clocData, results, totalComplexity,
                   totalDebt, errorLog, pending, outcome, cleanupRuns, rmCalls,
                   existedAtCleanup>>
    /\ invocations' = [invocations EXCEPT !.clone = @ + 1]
    /\ UNCHANGED <<hostVars, calcVars, raceVars, scanVars>>

\* Mutant of CloneFail: the exception leaves analyzeRepo without passing the
\* finally block.
CloneFailWithoutFinally ==
    /\ pc = "clone"
    /\ \E left \in BOOLEAN : workDirExists' = left
    /\ pending' = Throw("cloneError")
    /\ pc' = (IF copy = "service" THEN "settle" ELSE "catch")
    /\ UNCHANGED <<copy, repo, files, idx, clocData, results, totalComplexity,
                   totalDebt, errorLog, outcome, cleanupRuns, rmCalls,
                   existedAtCleanup>>
    /\ invocations' = [invocations EXCEPT !.clone = @ + 1]
    /\ UNCHANGED <<hostVars, calcVars, raceVars, scanVars>>

\* Step 1, execSync throws (bad URL, no access, the 120 s timeout): git may
\* or may not leave the directory behind.
CloneFail ==
    /\ pc = "clone"
    /\ \E left \in BOOLEAN : workDirExists' = left
    /\ pending' = Throw("cloneError")
    /\ pc' = Handler
    /\ UNCHANGED <<copy, repo, files, idx, clocData, results, totalComplexity,
                   totalDebt, errorLog, outcome, cleanupRuns, rmCalls,
                   existedAtCleanup>>
    /\ invocations' = [invocations EXCEPT !.clone = @ + 1]
    /\ UNCHANGED <<hostVars, calcVars, raceVars, scanVars>>

\* Step 2, glob resolves with the paths of the checkout; a path is the
\* position of the file in the enumeration.
GlobOk ==
    /\ pc = "glob"
    /\ files' = [k \in 1..Len(repo) |-> k]
    /\ pc' = "cloc"
    /\ UNCHANGED <<copy, repo, workDirExists, idx, clocData, results,
                   totalComplexity, totalDebt, errorLog, pending, outcome,
                   cleanupRuns, rmCalls, existedAtCleanup>>
    /\ invocations' = [invocations EXCEPT !.glob = @ + 1]
    /\ UNCHANGED <<hostVars, calcVars, raceVars, scanVars>>

\* Step 2, glob rejects.
GlobFail ==
    /\ pc = "glob"
    /\ pending' = Throw("globError")
    /\ pc' = Handler
    /\ UNCHANGED <<copy, repo, workDirExists, files, idx, clocData, results,
                   totalComplexity, totalDebt, errorLog, outcome, cleanupRuns,
                   rmCalls, existedAtCleanup>>
    /\ invocations' = [invocations EXCEPT !.glob = @ + 1]
    /\ UNCHANGED <<hostVars, calcVars, raceVars, scanVars>>

InitialResults(fileList) ==
    [summary |-> [totalFiles |-> Len(fileList),
                  analyzedFiles |-> 0,
                  averageComplexity |-> RInt(0),
                  averageDebtScore |-> RInt(0)],
     files |-> <<>>]

\* Mutant of ClocFailure: the exception of cloc leaves the outer try block.
ClocFailureEscaping ==
    Throw("clocError")

\* The completion of step 3 when cloc or JSON.parse throws: the inner catch
\* swallows the exception.
ClocFailure ==
    NoCompletion

\* Steps 3 and 4 up to the loop: cloc runs (clocOk: it exits 0 and prints
\* JSON), then results and the two sums are initialised.
RunCloc ==
    /\ pc = "cloc"
    /\ \E clocOk \in BOOLEAN :
          IF clocOk \/ ClocFailure.kind = "none"
          THEN /\ clocData' = (IF clocOk THEN "parsed" ELSE "empty")
               /\ results' = InitialResults(files)
               /\ totalComplexity' = RInt(0)
               /\ totalDebt' = RInt(0)
               /\ idx' = 1
               /\ pc' = "loop"
               /\ UNCHANGED pending
          ELSE /\ pending' = ClocFailure
               /\ pc' = Handler
               /\ UNCHANGED <<clocData, results, totalComplexity, totalDebt, idx>>
    /\ UNCHANGED <<copy, repo, workDirExists, files, errorLog, outcome,
                   cleanupRuns, rmCalls, existedAtCleanup>>
    /\ invocations' = [invocations EXCEPT !.cloc = @ + 1]
    /\ UNCHANGED <<hostVars, calcVars, raceVars, scanVars>>

\* analyzeFile of each copy on the files of the model (evaluated once per
\* content and path instead of once per step).
FileScores ==
    [c \in Copies, content \in Contents, f \in 1..MaxFiles |->
        IF c = "service" THEN analyzeFile(content, f)
        ELSE analyzeFileContainer(content, f)]

\* Mutant of Accumulate: the count incremented before the null check.
AccumulateCountingNull(acc, metrics) ==
    LET counted == [acc EXCEPT !.results.summary.analyzedFiles = @ + 1]
    IN  IF metrics # Null
        THEN [results |->
                  [summary |-> counted.results.summary,
                   files |-> Append(acc.results.files, metrics)],
              totalComplexity |->
                  RatAdd(acc.totalComplexity, metrics.cyclomaticComplexity),
              totalDebt |-> RatAdd(acc.totalDebt, metrics.totalDebtScore)]
        ELSE counted

\* What one analyzed file adds to the result and the sums (`if (metrics)`).
Accumulate(acc, metrics) ==
    IF metrics # Null
    THEN [results |->
              [summary |-> [acc.results.summary EXCEPT
                               !.analyzedFiles = @ + 1],
               files |-> Append(acc.results.files, metrics)],
          totalComplexity |->
              RatAdd(acc.totalComplexity, metrics.cyclomaticComplexity),
          totalDebt |-> RatAdd(acc.totalDebt, metrics.totalDebtScore)]
    ELSE acc

\* Mutant of AnalyzeNext: no per-file catch, a failing read ends the loop.
AnalyzeNextAborting ==
    /\ pc = "loop"
    /\ idx <= Len(files)
    /\ LET file == files[idx]
           entry == repo[file]
           acc == [results |-> results, totalComplexity |-> totalComplexity,
                   totalDebt |-> totalDebt]
           next == Accumulate(acc, FileScores[copy, entry.content, file])
       IN  IF entry.readable
           THEN /\ results' = next.results
                /\ totalComplexity' = next.totalComplexity
                /\ totalDebt' = next.totalDebt
                /\ idx' = idx + 1
                /\ UNCHANGED <<errorLog, pending, pc>>
           ELSE /\ pending' = Throw("readError")
                /\ pc' = Handler
                /\ UNCHANGED <<results, totalComplexity, totalDebt, errorLog, idx>>
    /\ UNCHANGED <<copy, repo, workDirExists, files, clocData, outcome,
                   cleanupRuns, rmCalls, existedAtCleanup>>
    /\ invocations' =
          [invocations EXCEPT
              !.read = Append(@, files[idx]),
              !.analyze = IF repo[files[idx]].readable
                          THEN Append(@, files[idx]) ELSE @]
    /\ UNCHANGED <<hostVars, calcVars, raceVars, scanVars>>

\* Mutant of AnalyzeNext: a file whose read failed is tried a second time.
AnalyzeNextRetrying ==
    /\ pc = "loop"
    /\ idx <= Len(files)
    /\ LET file == files[idx]
           entry == repo[file]
           acc == [results |-> results, totalComplexity |-> totalComplexity,
                   totalDebt |-> totalDebt]
           next == Accumulate(acc, FileScores[copy, entry.content, file])
       IN  IF entry.readable
           THEN /\ results' = next.results
                /\ totalComplexity' = next.totalComplexity
                /\ totalDebt' = next.totalDebt
                /\ idx' = idx + 1
                /\ UNCHANGED errorLog
           ELSE /\ errorLog' = errorLog \cup {file}
                /\ idx' = (IF file \in errorLog THEN idx + 1 ELSE idx)
                /\ UNCHANGED <<results, totalComplexity, totalDebt>>
    /\ invocations' =
          [invocations EXCEPT
              !.read = Append(@, files[idx]),
              !.analyze = IF repo[files[idx]].readable
                          THEN Append(@, files[idx]) ELSE @]
    /\ UNCHANGED <<copy, pc, repo, workDirExists, files, clocData, pending,
                   outcome, cleanupRuns, rmCalls, existedAtCleanup>>
    /\ UNCHANGED <<hostVars, calcVars, raceVars, scanVars>>

\* One iteration of the per-file loop: the file is read and scored, or the
\* exception of the read is caught and logged.
AnalyzeNext ==
    /\ pc = "loop"
    /\ idx <= Len(files)
    /\ LET file == files[idx]
           entry == repo[file]
           acc == [results |-> results, totalComplexity |-> totalComplexity,
                   totalDebt |-> totalDebt]
           next == Accumulate(acc, FileScores[copy, entry.content, file])
       IN  IF entry.readable
           THEN /\ results' = next.results
                /\ totalComplexity' = next.totalComplexity
                /\ totalDebt' = next.totalDebt
                /\ UNCHANGED errorLog
           ELSE /\ errorLog' = errorLog \cup {file}
                /\ UNCHANGED <<results, totalComplexity, totalDebt>>
    /\ idx' = idx + 1
    /\ UNCHANGED <<copy, pc, repo, workDirExists, files, clocData, pending,
                   outcome, cleanupRuns, rmCalls, existedAtCleanup>>
    /\ invocations' =
          [invocations EXCEPT
              !.read = Append(@, files[idx]),
              !.analyze = IF repo[files[idx]].readable
                          THEN Append(@, files[idx]) ELSE @]
    /\ UNCHANGED <<hostVars, calcVars, raceVars, scanVars>>

\* Mutant of WithAverages: the sums divided by the number of enumerated
\* files.
WithAveragesOverTotal(res, sumComplexity, sumDebt) ==
    IF res.summary.analyzedFiles > 0
    THEN [res EXCEPT
            !.summary.averageComplexity =
                RatDiv(sumComplexity, RInt(res.summary.totalFiles)),
            !.summary.averageDebtScore =
                RatDiv(sumDebt, RInt(res.summary.totalFiles))]
    ELSE res

\* Step 5: the averages.
WithAverages(res, sumComplexity, sumDebt) ==
    IF res.summary.analyzedFiles > 0
    THEN [res EXCEPT
            !.summary.averageComplexity =
                RatDiv(sumComplexity, RInt(res.summary.analyzedFiles)),
            !.summary.averageDebtScore =
                RatDiv(sumDebt, RInt(res.summary.analyzedFiles))]
    ELSE res

\* The loop of analyzeRepo is over: the averages are computed and
\* `return results` hands the value to the finally block.
Finish ==
    /\ copy = "service"
    /\ pc = "loop"
    /\ idx > Len(files)
    /\ results' = WithAverages(results, totalComplexity, totalDebt)
    /\ pending' = Return(results')
    /\ pc' = "finally"
    /\ UNCHANGED <<copy, repo, workDirExists, files, idx, clocData,
                   totalComplexity, totalDebt, errorLog, outcome, cleanupRuns,
                   rmCalls, existedAtCleanup>>
    /\ UNCHANGED invocations
    /\ UNCHANGED <<hostVars, calcVars, raceVars, scanVars>>

\* Mutant of FinallyCompletion: a throwing cleanup replaces the completion
\* of the try block.
FinallyCompletionRethrowing(tryCompletion, cleanupThrew) ==
    IF cleanupThrew THEN Throw("cleanupError") ELSE tryCompletion

\* The completion analyzeRepo ends with after the finally block: the inner
\* try/catch swallows a cleanup error, so it is the completion of the try
\* block.
FinallyCompletion(tryCompletion, cleanupThrew) ==
    tryCompletion

\* Whether the finally block calls fs.rmSync.
RemovesWorkDir(exists) ==
    exists

\* The finally block of analyzeRepo: rmSync removes the directory, or throws
\* and leaves it.
Cleanup ==
    /\ pc = "finally"
    /\ cleanupRuns' = cleanupRuns + 1
    /\ existedAtCleanup' = workDirExists
    /\ IF RemovesWorkDir(workDirExists)
       THEN /\ rmCalls' = rmCalls + 1
            /\ \E rmThrows \in BOOLEAN :
                  /\ workDirExists' = (workDirExists /\ rmThrows)
                  /\ pending' = FinallyCompletion(pending, rmThrows)
       ELSE /\ UNCHANGED <<rmCalls, workDirExists>>
            /\ pending' = FinallyCompletion(pending, FALSE)
    /\ pc' = "settle"
    /\ UNCHANGED <<copy, repo, files, idx, clocData, results, totalComplexity,
                   totalDebt, errorLog, outcome>>
    /\ UNCHANGED invocations
    /\ UNCHANGED <<hostVars, calcVars, raceVars, scanVars>>

\* The promise of analyzeRepo settles: the caller receives the result or the
\* error.
Settle ==
    /\ pc = "settle"
    /\ outcome' = pending
    /\ pc' = "done"
    /\ UNCHANGED <<copy, repo, workDirExists, files, idx, clocData, results,
                   totalComplexity, totalDebt, errorLog, pending, cleanupRuns,
                   rmCalls, existedAtCleanup>>
    /\ UNCHANGED invocations
    /\ UNCHANGED <<hostVars, calcVars, raceVars, scanVars>>

\* The loop of main is over: the averages are computed and the result is
\* printed to stdout; nothing removes the checkout.
MainFinish ==
    /\ copy = "container"
    /\ pc = "loop"
    /\ idx > Len(files)
    /\ results' = WithAverages(results, totalComplexity, totalDebt)
    /\ outcome' = Printed(results')
    /\ pc' = "done"
    /\ UNCHANGED <<copy, repo, workDirExists, files, idx, clocData,
                   totalComplexity, totalDebt, errorLog, pending, cleanupRuns,
                   rmCalls, existedAtCleanup>>
    /\ UNCHANGED invocations
    /\ UNCHANGED <<hostVars, calcVars, raceVars, scanVars>>

\* The catch block of main: the error is logged and the process exits with
\* code 1, without a result.
MainCatch ==
    /\ pc = "catch"
    /\ outcome' = Exit(pending.error)
    /\ pc' = "done"
    /\ UNCHANGED <<copy, repo, workDirExists, files, idx, clocData, results,
                   totalComplexity, totalDebt, errorLog, pending, cleanupRuns,
                   rmCalls, existedAtCleanup>>
    /\ UNCHANGED invocations
    /\ UNCHANGED <<hostVars, calcVars, raceVars, scanVars>>

\* The process of the run is killed from outside (SIGKILL, the timeout of
\* the sandbox): no statement runs after it, the finally block included.  A
\* kill during git clone leaves what git has written so far.
Kill ==
    /\ pc \notin {"done", "killed"}
    /\ pc' = "killed"
    /\ workDirExists' \in (IF pc = "clone" THEN BOOLEAN ELSE {workDirExists})
    /\ UNCHANGED <<copy, repo, files, idx, clocData, results, totalComplexity,
                   totalDebt, errorLog, pending, outcome, cleanupRuns, rmCalls,
                   existedAtCleanup, invocations>>
    /\ UNCHANGED <<hostVars, calcVars, raceVars, scanVars>>

Next ==
    \/ CloneOk
    \/ CloneFail
    \/ GlobOk
    \/ GlobFail
    \/ RunCloc
    \/ AnalyzeNext
    \/ Finish
    \/ Cleanup
    \/ Settle
    \/ MainFinish
    \/ MainCatch
    \/ Kill

Spec ==
    Init /\ [][Next]_vars

(***************************************************************************)
(* runDockerAnalysis (src/src/services/docker.js): the host starts the     *)
(* container copy of the engine with `docker run --rm`, waits for it with  *)
(* a 5 minute timeout, parses its stdout, and on any error tries           *)
(* `docker rm -f` before it throws.                                        *)
(***************************************************************************)
DockerInit ==
    /\ copy = "container"
    /\ pc = "unstarted"
    /\ repo = <<>>
    /\ workDirExists = FALSE
    /\ files = <<>>
    /\ idx = 0
    /\ clocData = "empty"
    /\ results = Null
    /\ totalComplexity = RInt(0)
    /\ totalDebt = RInt(0)
    /\ errorLog = {}
    /\ pending = NoCompletion
    /\ outcome = NoCompletion
    /\ cleanupRuns = 0
    /\ rmCalls = 0
    /\ existedAtCleanup = FALSE
    /\ invocations = [clone |-> 0, glob |-> 0, cloc |-> 0,
                      read |-> <<>>, analyze |-> <<>>]
    /\ hostPc = "start"
    /\ container = "absent"
    /\ execResult = NoCompletion
    /\ rmForced = "none"
    /\ hostOutcome = NoCompletion
    /\ vocabulary = "none"
    /\ input = <<>>
    /\ scores = Null
    /\ NoRuns
    /\ NoScan

\* execAsync(docker run ...) resolves with the stdout of the container.
Resolved(stdout) ==
    [kind |-> "resolved", value |-> stdout, error |-> ""]

\* execAsync rejects: non-zero exit code, timeout, or the child not started.
Rejected(error) ==
    [kind |-> "rejected", value |-> Null, error |-> error]

\* What is left of the engine when its container goes away.
Stopped(position) ==
    IF position = "done" THEN "done" ELSE "killed"

\* docker run: the container starts and main begins; or docker cannot
\* start it (no image, no daemon) and exits non-zero without a container.
DockerRun ==
    /\ hostPc = "start"
    /\ \/ /\ container' = "running"
          /\ pc' = "clone"
          /\ hostPc' = "waiting"
          /\ UNCHANGED execResult
       \/ /\ execResult' = Rejected("startError")
          /\ hostPc' = "catch"
          /\ UNCHANGED <<container, pc>>
    /\ UNCHANGED <<copy, repo, workDirExists, files, idx, clocData, results,
                   totalComplexity, totalDebt, errorLog, pending, outcome,
                   cleanupRuns, rmCalls, existedAtCleanup, invocations,
                   rmForced, hostOutcome, calcVars, raceVars, scanVars>>

\* The process of the container has ended: --rm removes the container and
\* docker run exits with the exit code of main.  The stdout of a run that
\* printed is the JSON text of its result, or text JSON.parse rejects.
ContainerExit ==
    /\ hostPc = "waiting"
    /\ container = "running"
    /\ pc = "done"
    /\ container' = "removed"
    /\ IF outcome.kind = "print"
       THEN /\ \E isJSON \in BOOLEAN :
                  execResult' =
                      Resolved([isJSON |-> isJSON,
                                parsed |-> IF isJSON THEN outcome.value
                                           ELSE Null])
            /\ hostPc' = "parse"
       ELSE /\ execResult' = Rejected("exitCode1")
            /\ hostPc' = "catch"
    /\ UNCHANGED <<engineVars, rmForced, hostOutcome, calcVars, raceVars,
                   scanVars>>

\* The 5 minute timeout of execAsync fires (or stdout outgrows maxBuffer):
\* the docker client is killed and the promise rejects.  The container goes
\* down with its client, or keeps running without it.
ExecTimeout ==
    /\ hostPc = "waiting"
    /\ container = "running"
    /\ execResult' = Rejected("timeout")
    /\ hostPc' = "catch"
    /\ \/ UNCHANGED <<container, pc>>
       \/ /\ container' = "removed"
          /\ pc' = Stopped(pc)
    /\ UNCHANGED <<copy, repo, workDirExists, files, idx, clocData, results,
                   totalComplexity, totalDebt, errorLog, pending, outcome,
                   cleanupRuns, rmCalls, existedAtCleanup, invocations,
                   rmForced, hostOutcome, calcVars, raceVars, scanVars>>

\* const results = JSON.parse(stdout); return results.
ParseOutput ==
    /\ hostPc = "parse"
    /\ IF ~execResult.value.isJSON
       THEN /\ execResult' = Rejected("syntaxError")
            /\ hostPc' = "catch"
            /\ UNCHANGED hostOutcome
       ELSE /\ hostOutcome' = Return(execResult.value.parsed)
            /\ hostPc' = "done"
            /\ UNCHANGED execResult
    /\ UNCHANGED <<engineVars, container, rmForced, calcVars, raceVars, scanVars>>

\* Mutant of RemoveForced: the catch block does not try to remove the
\* container.
RemoveForcedSkipped(state, succeeds) ==
    state

\* The container after `docker rm -f` in the catch block: a container that
\* exists is removed when the command succeeds; the command fails when there
\* is no such container (started never, or removed already), or for a reason
\* of its own, and the catch around it ignores that.
RemoveForced(state, succeeds) ==
    IF state = "running" /\ succeeds THEN "removed" ELSE state

\* The catch block: the error is logged, the cleanup attempted, and a new
\* Error with the message of the first one is thrown.
DockerCatch ==
    /\ hostPc = "catch"
    /\ \E succeeds \in BOOLEAN :
          /\ container' = RemoveForced(container, succeeds)
          /\ rmForced' = (IF container # "running" THEN "noSuchContainer"
                          ELSE IF succeeds THEN "removed" ELSE "failed")
          /\ pc' = (IF container' = "removed" /\ container = "running"
                    THEN Stopped(pc) ELSE pc)
    /\ hostOutcome' = Throw(execResult.error)
    /\ hostPc' = "done"
    /\ UNCHANGED <<copy, repo, workDirExists, files, idx, clocData, results,
                   totalComplexity, totalDebt, errorLog, pending, outcome,
                   cleanupRuns, rmCalls, existedAtCleanup, invocations,
                   execResult, calcVars, raceVars, scanVars>>

DockerNext ==
    \/ DockerRun
    \/ CloneOk
    \/ CloneFail
    \/ GlobOk
    \/ GlobFail
    \/ RunCloc
    \/ AnalyzeNext
    \/ MainFinish
    \/ MainCatch
    \/ ContainerExit
    \/ ExecTimeout
    \/ ParseOutput
    \/ DockerCatch

DockerSpec ==
    DockerInit /\ [][DockerNext]_vars

(***************************************************************************)
(* The calculators applied to one content.  The third copy of the engine,  *)
(* src/unnamed/part_001 ("hybrid": the container's main with the           *)
(* structural calculators), differs from the service copy in the value its *)
(* complexity calculators return.  A content is written line by line with  *)
(* the lines of one vocabulary; the calculators do not depend on the order *)
(* of the lines, so the lines are kept in the order of the vocabulary.     *)
(***************************************************************************)
MaxLines ==
    5

Vocabularies ==
    [decisions |->
         <<"stmt", "if", "elseif", "ifand", "ifor", "for", "while", "switch",
           "ternary", "ternary2", "ts">>,
     coupling |->
         <<"stmt", "if", "elseif", "switch", "ternary", "import", "importbare",
           "require", "dynreq", "fetch", "ts">>,
     duplication |->
         <<"", "stmt", "wide", "long", "longws", "nested", "import",
           "require", "todo", "blockcomment", "push", "ts">>,
     entropy |->
         <<"stmt", "func", "func2", "arrow", "todo", "anys", "ts">>,
     responsibility |->
         <<"stmt", "func", "arrow", "funcs3", "class", "classm1", "classm2",
           "thisassign", "push", "httpget", "ts">>]

\* Contents longer than MaxLines that the calculators are also applied to.
\* 18 lines whose five sub-metrics are all 0.6.
EvenLines ==
    Rep("importbare", 3) \o <<"class", "thisassign">> \o Rep("if", 5)
        \o Rep("long", 4) \o Rep("stmt", 3) \o <<"todo">>

\* 11 lines, 20 decision points: the adjusted score is 0.79666...
NearMildLines ==
    Rep("ifand", 9) \o Rep("if", 2)

\* Four lines, each ended by a newline: the text ends with an empty line.
FourTerminatedLines ==
    Rep("stmt", 4) \o <<"">>

FiftyLines ==
    Rep("stmt", 50)

FiftyOneLines ==
    Rep("stmt", 51)

PreparedInputs ==
    {EvenLines, NearMildLines, FourTerminatedLines, FiftyLines, FiftyOneLines}

\* calculateComplexityAST of part_001: the count per character of the
\* program, times 100.
calculateComplexityASTNormalized(ast) ==
    LET complexity ==
            1 + SumInt([i \in 1..Len(ast.body) |-> ComplexityVisitor(ast.body[i])])
    IN  Rat(complexity * 100, ast.end - ast.start)

AnalyzerCopies ==
    {"service", "container", "hybrid"}

\* cyclomaticComplexity of analyzeFile in each copy.
CyclomaticComplexityIn(c, content) ==
    LET ast == AcornParse(content)
    IN  CASE c = "service" -> cyclomaticComplexityOf(ast, content)
          [] c = "container" -> calculateCyclomaticComplexity(content)
          [] c = "hybrid" ->
                IF ast # Null THEN calculateComplexityASTNormalized(ast)
                ELSE calculateCyclomaticComplexity(content)

\* What the calculators give for a content; the complexity of analyzeFile
\* only for a content analyzeFile does not reject.
ScoresOf(content) ==
    LET ast == AcornParse(content)
        cyclomaticComplexity ==
            [c \in AnalyzerCopies |-> CyclomaticComplexityIn(c, content)]
        responsibilityScore == responsibilityScoreOf(ast, content)
        couplingScore == couplingScoreOf(ast, content)
    IN  [parsed |-> ast # Null,
         loc |-> Len(Split(content)),
         analysis |->
             IF BelowFloor(content) THEN Null
             ELSE [cyclomaticComplexity |-> cyclomaticComplexity,
                   complexityScore |->
                       [c \in AnalyzerCopies |->
                           ComplexityScore(cyclomaticComplexity[c])],
                   normalizedLOC |-> Rat(Len(Split(content)), IDEAL_LOC),
                   responsibilityScore |-> responsibilityScore,
                   couplingScore |-> couplingScore,
                   sprawlScore |->
                       SprawlScore(content, cyclomaticComplexity["service"],
                                   responsibilityScore, couplingScore),
                   adjustedSprawlScore |->
                       AdjustedSprawlScore(content, cyclomaticComplexity["service"],
                                           responsibilityScore, couplingScore),
                   record |->
                       FileRecord(content, 1, cyclomaticComplexity["service"],
                                  responsibilityScore, couplingScore)],
         complexityAST |->
             IF ast # Null THEN calculateComplexityAST(ast) ELSE Null,
         complexityRegex |-> calculateComplexityRegex(content),
         couplingAST |->
             IF ast # Null THEN calculateCouplingAST(ast) ELSE Null,
         responsibilityAST |->
             IF ast # Null THEN calculateResponsibilityAST(ast) ELSE Null,
         responsibilityRegex |-> calculateResponsibilityRegex(content),
         couplingRegex |-> calculateCouplingRegex(content),
         couplingContainer |-> calculateCouplingScore(content),
         duplicationRatio |-> calculateDuplicationRatio(content),
         aiEntropyFactor |-> calculateAIEntropyFactor(content)]

CalcInit ==
    /\ copy = "service"
    /\ pc = "unstarted"
    /\ repo = <<>>
    /\ workDirExists = FALSE
    /\ files = <<>>
    /\ idx = 0
    /\ clocData = "empty"
    /\ results = Null
    /\ totalComplexity = RInt(0)
    /\ totalDebt = RInt(0)
    /\ errorLog = {}
    /\ pending = NoCompletion
    /\ outcome = NoCompletion
    /\ cleanupRuns = 0
    /\ rmCalls = 0
    /\ existedAtCleanup = FALSE
    /\ invocations = [clone |-> 0, glob |-> 0, cloc |-> 0,
                      read |-> <<>>, analyze |-> <<>>]
    /\ hostPc = "none"
    /\ container = "absent"
    /\ execResult = NoCompletion
    /\ rmForced = "none"
    /\ hostOutcome = NoCompletion
    /\ \/ vocabulary \in DOMAIN Vocabularies /\ input = <<>>
       \/ vocabulary = "prepared" /\ input \in PreparedInputs
    /\ scores = Null
    /\ NoRuns
    /\ NoScan

\* The place of a line in the vocabulary.
Rank(l) ==
    CHOOSE k \in 1..Len(Vocabularies[vocabulary]) :
        Vocabularies[vocabulary][k] = l

\* One more line written at the end of the content.
AddLine ==
    /\ vocabulary \in DOMAIN Vocabularies
    /\ Len(input) < MaxLines
    /\ \E k \in 1..Len(Vocabularies[vocabulary]) :
          /\ IF input = <<>> THEN TRUE ELSE Rank(input[Len(input)]) <= k
          /\ input' = Append(input, Vocabularies[vocabulary][k])
    /\ scores' = Null
    /\ UNCHANGED <<engineVars, hostVars, vocabulary, raceVars, scanVars>>

\* The calculators applied to the content.
ApplyCalculators ==
    /\ vocabulary # "none"
    /\ scores = Null
    /\ scores' = ScoresOf(Text(input))
    /\ UNCHANGED <<engineVars, hostVars, vocabulary, input, raceVars, scanVars>>

CalcNext ==
    \/ AddLine
    \/ ApplyCalculators

CalcSpec ==
    CalcInit /\ [][CalcNext]_vars

(***************************************************************************)
(* Two calls of analyzeRepo on one host (analyzer.js 16-99), each in its   *)
(* own process or both on one event loop.  Only what the calls share is    *)
(* kept: the clock that names the working directory and the directories   *)
(* under os.tmpdir().                                                      *)
(***************************************************************************)
\* The engine, the host and the calculators at rest.
EngineAtRest ==
    /\ copy = "service"
    /\ pc = "unstarted"
    /\ repo = <<>>
    /\ workDirExists = FALSE
    /\ files = <<>>
    /\ idx = 0
    /\ clocData = "empty"
    /\ results = Null
    /\ totalComplexity = RInt(0)
    /\ totalDebt = RInt(0)
    /\ errorLog = {}
    /\ pending = NoCompletion
    /\ outcome = NoCompletion
    /\ cleanupRuns = 0
    /\ rmCalls = 0
    /\ existedAtCleanup = FALSE
    /\ invocations = [clone |-> 0, glob |-> 0, cloc |-> 0,
                      read |-> <<>>, analyze |-> <<>>]
    /\ hostPc = "none"
    /\ container = "absent"
    /\ execResult = NoCompletion
    /\ rmForced = "none"
    /\ hostOutcome = NoCompletion
    /\ vocabulary = "none"
    /\ input = <<>>
    /\ scores = Null

RaceInit ==
    /\ EngineAtRest
    /\ NoRuns
    /\ NoScan

\* A millisecond passes.
Tick ==
    /\ now < MaxClock
    /\ now' = now + 1
    /\ UNCHANGED <<runPc, workDir, dirOwner, interfered>>
    /\ UNCHANGED <<engineVars, hostVars, calcVars, scanVars>>

\* const workDir = path.join(os.tmpdir(), `devdebt-${Date.now()}`)
StartRun(r) ==
    /\ runPc[r] = "idle"
    /\ workDir' = [workDir EXCEPT ![r] = now]
    /\ runPc' = [runPc EXCEPT ![r] = "clone"]
    /\ UNCHANGED <<now, dirOwner, interfered>>
    /\ UNCHANGED <<engineVars, hostVars, calcVars, scanVars>>

\* git clone starts: it refuses a destination that exists and is not empty
\* (execSync throws, the finally block runs); otherwise it makes the
\* directory and fills it.
CloneStarts(r) ==
    /\ runPc[r] = "clone"
    /\ IF dirOwner[workDir[r]] # 0
       THEN /\ runPc' = [runPc EXCEPT ![r] = "finally"]
            /\ UNCHANGED dirOwner
       ELSE /\ runPc' = [runPc EXCEPT ![r] = "cloning"]
            /\ dirOwner' = [dirOwner EXCEPT ![workDir[r]] = r]
    /\ UNCHANGED <<now, workDir, interfered>>
    /\ UNCHANGED <<engineVars, hostVars, calcVars, scanVars>>

\* git clone ends: with the checkout on disk, or with an error after which
\* the finally block runs.
CloneEnds(r) ==
    /\ runPc[r] = "cloning"
    /\ \E succeeds \in BOOLEAN :
          runPc' = [runPc EXCEPT ![r] = IF succeeds THEN "reading" ELSE "finally"]
    /\ UNCHANGED <<now, workDir, dirOwner, interfered>>
    /\ UNCHANGED <<engineVars, hostVars, calcVars, scanVars>>

\* Steps 2 to 5: the files are enumerated and read; the try block is left.
ReadFiles(r) ==
    /\ runPc[r] = "reading"
    /\ runPc' = [runPc EXCEPT ![r] = "finally"]
    /\ UNCHANGED <<now, workDir, dirOwner, interfered>>
    /\ UNCHANGED <<engineVars, hostVars, calcVars, scanVars>>

\* The finally block: if (fs.existsSync(workDir)) fs.rmSync(workDir, ...),
\* whichever call made the directory.
CleanupWorkDir(r) ==
    /\ runPc[r] = "finally"
    /\ LET owner == dirOwner[workDir[r]]
       IN  /\ dirOwner' = [dirOwner EXCEPT ![workDir[r]] = 0]
           /\ interfered' =
                  IF owner \notin {0, r} /\ runPc[owner] \in {"cloning", "reading"}
                  THEN interfered \cup {owner}
                  ELSE interfered
    /\ runPc' = [runPc EXCEPT ![r] = "done"]
    /\ UNCHANGED <<now, workDir>>
    /\ UNCHANGED <<engineVars, hostVars, calcVars, scanVars>>

\* The caller has its result or its error; it may call analyzeRepo again.
RunSettled(r) ==
    /\ runPc[r] = "done"
    /\ runPc' = [runPc EXCEPT ![r] = "idle"]
    /\ workDir' = [workDir EXCEPT ![r] = -1]
    /\ UNCHANGED <<now, dirOwner, interfered>>
    /\ UNCHANGED <<engineVars, hostVars, calcVars, scanVars>>

RaceNext ==
    \/ Tick
    \/ \E r \in Runs : StartRun(r)
    \/ \E r \in Runs : CloneStarts(r)
    \/ \E r \in Runs : CloneEnds(r)
    \/ \E r \in Runs : ReadFiles(r)
    \/ \E r \in Runs : CleanupWorkDir(r)
    \/ \E r \in Runs : RunSettled(r)

RaceSpec ==
    RaceInit /\ [][RaceNext]_vars

(***************************************************************************)
(* One scan: the trigger route (router.post('/:repoId')), the job in the   *)
(* queue, and the processor of scanWorker.  Every awaited call of the      *)
(* processor either resolves or rejects.  The queue is the library's: a    *)
(* job is added without options, so a job whose processor threw is failed  *)
(* and not retried, and a job whose worker is gone is moved back to        *)
(* waiting once (maxStalledCount) and failed the next time.                *)
(***************************************************************************)
MaxRecords ==
    2

maxStalledCount ==
    1

ScanInit ==
    /\ EngineAtRest
    /\ NoRuns
    /\ NoScan

\* router.post('/:repoId'): the scan record is created PENDING, the add to
\* the queue is started and not awaited, 202 is sent.
TriggerScan ==
    /\ scanStatus = "none"
    /\ scanStatus' = "PENDING"
    /\ enqueueTask' = "pending"
    /\ UNCHANGED <<timedOut, jobState, stalledCount, workerPc, analysisResults,
                   stored, summaryStored, rows, analysisThrew, writeFailed>>
    /\ UNCHANGED <<engineVars, hostVars, calcVars, raceVars>>

\* The 2 seconds pass before the queue answers: Promise.race rejects, the
\* catch logs; the add itself goes on.
QueueTimeout ==
    /\ enqueueTask = "pending"
    /\ ~timedOut
    /\ timedOut' = TRUE
    /\ UNCHANGED <<scanStatus, enqueueTask, jobState, stalledCount, workerPc,
                   analysisResults, stored, summaryStored, rows, analysisThrew,
                   writeFailed>>
    /\ UNCHANGED <<engineVars, hostVars, calcVars, raceVars>>

\* The queue answers: the job is in the queue.
EnqueueResolves ==
    /\ enqueueTask = "pending"
    /\ enqueueTask' = "resolved"
    /\ jobState' = "waiting"
    /\ UNCHANGED <<scanStatus, timedOut, stalledCount, workerPc,
                   analysisResults, stored, summaryStored, rows, analysisThrew,
                   writeFailed>>
    /\ UNCHANGED <<engineVars, hostVars, calcVars, raceVars>>

\* The add fails: the catch logs, nothing else is done.
EnqueueRejects ==
    /\ enqueueTask = "pending"
    /\ enqueueTask' = "rejected"
    /\ UNCHANGED <<scanStatus, timedOut, jobState, stalledCount, workerPc,
                   analysisResults, stored, summaryStored, rows, analysisThrew,
                   writeFailed>>
    /\ UNCHANGED <<engineVars, hostVars, calcVars, raceVars>>

\* The worker takes the job and calls the processor.
TakeJob ==
    /\ jobState = "waiting"
    /\ workerPc = "idle"
    /\ jobState' = "active"
    /\ workerPc' = "updateRunning"
    /\ analysisResults' = -1
    /\ stored' = 0
    /\ summaryStored' = FALSE
    /\ UNCHANGED <<scanStatus, enqueueTask, timedOut, stalledCount, rows,
                   analysisThrew, writeFailed>>
    /\ UNCHANGED <<engineVars, hostVars, calcVars, raceVars>>

\* await prisma.scan.update({ status: 'RUNNING' })
UpdateRunning ==
    /\ workerPc = "updateRunning"
    /\ \E resolves \in BOOLEAN :
          IF resolves
          THEN scanStatus' = "RUNNING" /\ workerPc' = "analysis"
          ELSE scanStatus' = scanStatus /\ workerPc' = "catch"
    /\ UNCHANGED <<enqueueTask, timedOut, jobState, stalledCount,
                   analysisResults, stored, summaryStored, rows, analysisThrew,
                   writeFailed>>
    /\ UNCHANGED <<engineVars, hostVars, calcVars, raceVars>>

\* await runDockerAnalysis(...): it returns the results of the container,
\* with their files, or throws.
RunDockerAnalysis ==
    /\ workerPc = "analysis"
    /\ \/ /\ analysisThrew' = TRUE
          /\ workerPc' = "catch"
          /\ UNCHANGED analysisResults
       \/ /\ \E n \in 0..MaxRecords : analysisResults' = n
          /\ workerPc' = "store"
          /\ UNCHANGED analysisThrew
    /\ UNCHANGED <<scanStatus, enqueueTask, timedOut, jobState, stalledCount,
                   stored, summaryStored, rows, writeFailed>>
    /\ UNCHANGED <<engineVars, hostVars, calcVars, raceVars>>

\* One turn of the loop: await prisma.debtMetric.create(...)
StoreMetric ==
    /\ workerPc = "store"
    /\ stored < analysisResults
    /\ \E resolves \in BOOLEAN :
          IF resolves
          THEN /\ rows' = rows + 1
               /\ stored' = stored + 1
               /\ workerPc' = workerPc
          ELSE /\ workerPc' = "catch"
               /\ UNCHANGED <<rows, stored>>
    /\ UNCHANGED <<scanStatus, enqueueTask, timedOut, jobState, stalledCount,
                   analysisResults, summaryStored, analysisThrew, writeFailed>>
    /\ UNCHANGED <<engineVars, hostVars, calcVars, raceVars>>

\* After the loop: await prisma.scan.update({ totalFiles, ... })
UpdateSummary ==
    /\ workerPc = "store"
    /\ stored = analysisResults
    /\ \E resolves \in BOOLEAN :
          IF resolves
          THEN summaryStored' = TRUE /\ workerPc' = "updateCompleted"
          ELSE summaryStored' = summaryStored /\ workerPc' = "catch"
    /\ UNCHANGED <<scanStatus, enqueueTask, timedOut, jobState, stalledCount,
                   analysisResults, stored, rows, analysisThrew, writeFailed>>
    /\ UNCHANGED <<engineVars, hostVars, calcVars, raceVars>>

\* await prisma.scan.update({ status: 'COMPLETED' })
UpdateCompleted ==
    /\ workerPc = "updateCompleted"
    /\ \E resolves \in BOOLEAN :
          IF resolves
          THEN scanStatus' = "COMPLETED" /\ workerPc' = "return"
          ELSE scanStatus' = scanStatus /\ workerPc' = "catch"
    /\ UNCHANGED <<enqueueTask, timedOut, jobState, stalledCount,
                   analysisResults, stored, summaryStored, rows, analysisThrew,
                   writeFailed>>
    /\ UNCHANGED <<engineVars, hostVars, calcVars, raceVars>>

\* return { success: true, ... }: the queue marks the job completed.
ReturnSuccess ==
    /\ workerPc = "return"
    /\ workerPc' = "idle"
    /\ jobState' = "completed"
    /\ UNCHANGED <<scanStatus, enqueueTask, timedOut, stalledCount,
                   analysisResults, stored, summaryStored, rows, analysisThrew,
                   writeFailed>>
    /\ UNCHANGED <<engineVars, hostVars, calcVars, raceVars>>

\* Mutant of UpdateFailed: the catch block rethrows without the update.
UpdateFailedSkipped ==
    /\ workerPc = "catch"
    /\ workerPc' = "throw"
    /\ UNCHANGED <<scanStatus, enqueueTask, timedOut, jobState, stalledCount,
                   analysisResults, stored, summaryStored, rows, analysisThrew,
                   writeFailed>>
    /\ UNCHANGED <<engineVars, hostVars, calcVars, raceVars>>

\* The catch block: await prisma.scan.update({ status: 'FAILED' }); when
\* the update itself rejects, its error leaves the processor.
UpdateFailed ==
    /\ workerPc = "catch"
    /\ \E resolves \in BOOLEAN :
          IF resolves
          THEN scanStatus' = "FAILED" /\ writeFailed' = writeFailed
          ELSE scanStatus' = scanStatus /\ writeFailed' = TRUE
    /\ workerPc' = "throw"
    /\ UNCHANGED <<enqueueTask, timedOut, jobState, stalledCount,
                   analysisResults, stored, summaryStored, rows, analysisThrew>>
    /\ UNCHANGED <<engineVars, hostVars, calcVars, raceVars>>

\* throw error: the queue marks the job failed; it is not retried.
ThrowError ==
    /\ workerPc = "throw"
    /\ workerPc' = "idle"
    /\ jobState' = "failed"
    /\ UNCHANGED <<scanStatus, enqueueTask, timedOut, stalledCount,
                   analysisResults, stored, summaryStored, rows, analysisThrew,
                   writeFailed>>
    /\ UNCHANGED <<engineVars, hostVars, calcVars, raceVars>>

\* The worker process ends while the job is active (killed, restarted);
\* another worker process finds the job stalled: it goes back to waiting,
\* or is failed once it has stalled more than maxStalledCount times.
WorkerLost ==
    /\ jobState = "active"
    /\ workerPc' = "idle"
    /\ IF stalledCount < maxStalledCount
       THEN jobState' = "waiting" /\ stalledCount' = stalledCount + 1
       ELSE jobState' = "failed" /\ stalledCount' = stalledCount
    /\ UNCHANGED <<scanStatus, enqueueTask, timedOut, analysisResults, stored,
                   summaryStored, rows, analysisThrew, writeFailed>>
    /\ UNCHANGED <<engineVars, hostVars, calcVars, raceVars>>

\* The steps of the processor of scanWorker.
WorkerStep ==
    \/ TakeJob
    \/ UpdateRunning
    \/ RunDockerAnalysis
    \/ StoreMetric
    \/ UpdateSummary
    \/ UpdateCompleted
    \/ ReturnSuccess
    \/ UpdateFailed
    \/ ThrowError

\* The steps of the trigger route and of the queue.
RouteStep ==
    \/ TriggerScan
    \/ QueueTimeout
    \/ EnqueueResolves
    \/ EnqueueRejects

ScanNext ==
    \/ RouteStep
    \/ WorkerStep
    \/ WorkerLost

ScanSpec ==
    ScanInit /\ [][ScanNext]_vars

\* The worker keeps processing the queue: its process is not lost, and
\* every call the processor awaits settles.
ScanLiveNext ==
    \/ RouteStep
    \/ WorkerStep

ScanLiveSpec ==
    ScanInit /\ [][ScanLiveNext]_vars /\ WF_vars(WorkerStep)

(***************************************************************************)
(* Properties.                                                             *)
(***************************************************************************)
\* The files the loop has passed.
Processed ==
    1..(idx - 1)

\* The number of lines of each content: its newlines plus one.
LineCounts ==
    [c \in Contents |-> Cardinality({i \in 1..Len(c) : c[i] = "\n"}) + 1]

\* The enumerated files that analyzeFile scores: readable, 5 lines or more.
Scorable(f) ==
    repo[f].readable /\ LineCounts[repo[f].content] >= 5

RecordPaths ==
    {results.files[k].path : k \in 1..Len(results.files)}

ContentOf(record) ==
    repo[record.path].content

\* The adjusted score of each content under each copy.
AdjustedScores ==
    [c \in Copies, content \in Contents |-> AdjustedScoreOf(c, content)]

\* The pre-entropy combination of each content under each copy.
SprawlScores ==
    [c \in Copies, content \in Contents |-> SprawlScoreOf(c, content)]

\* The entropy factor of each content (the same calculator in both copies).
EntropyFactors ==
    [content \in Contents |-> calculateAIEntropyFactor(content)]

\* The run has delivered a result: returned it (service) or printed it
\* (container).
Delivered ==
    outcome.kind \in {"return", "print"}

\* C1: a file whose content has fewer than 5 lines gets no record and adds
\* nothing to analyzedFiles or to the two running sums, and is counted in
\* totalFiles.
C1_ShortFilesSkipped ==
    results # Null =>
        /\ results.summary.totalFiles = Len(repo)
        /\ \A k \in 1..Len(results.files) : LineCounts[ContentOf(results.files[k])] >= 5
        /\ results.summary.analyzedFiles =
               Cardinality({f \in Processed : Scorable(f)})
        /\ totalComplexity =
               SumRat([k \in 1..Len(results.files) |->
                          results.files[k].cyclomaticComplexity])
        /\ totalDebt =
               SumRat([k \in 1..Len(results.files) |->
                          results.files[k].totalDebtScore])

C1_Witness ==
    /\ pc = "done"
    /\ Delivered
    /\ \E f, g \in 1..Len(repo) :
          /\ repo[f].readable /\ LineCounts[repo[f].content] < 5
          /\ Scorable(g)
    /\ outcome.value.summary.totalFiles > outcome.value.summary.analyzedFiles

\* C2: the level of every record follows the adjusted score with the exact
\* boundaries: clean below 0.8, mild from 0.8 and below 1.2, high from 1.2 and
\* below 1.6, severe from 1.6.
C2_LevelBoundaries ==
    results # Null =>
        \A k \in 1..Len(results.files) :
            LET adjusted == AdjustedScores[copy, ContentOf(results.files[k])]
                level == results.files[k].sprawlLevel
            IN  /\ level \in {"clean", "mild", "high", "severe"}
                /\ level = "clean" <=> RatLT(adjusted, Rat(8, 10))
                /\ level = "mild" <=>
                       ~RatLT(adjusted, Rat(8, 10)) /\ RatLT(adjusted, Rat(12, 10))
                /\ level = "high" <=>
                       ~RatLT(adjusted, Rat(12, 10)) /\ RatLT(adjusted, Rat(16, 10))
                /\ level = "severe" <=> ~RatLT(adjusted, Rat(16, 10))

C2_Witness ==
    /\ pc = "done"
    /\ results # Null
    /\ \E i, j, k \in 1..Len(results.files) :
          /\ AdjustedScores[copy, ContentOf(results.files[i])] = Rat(8, 10)
          /\ results.files[i].sprawlLevel = "mild"
          /\ AdjustedScores[copy, ContentOf(results.files[j])] = Rat(12, 10)
          /\ results.files[j].sprawlLevel = "high"
          /\ AdjustedScores[copy, ContentOf(results.files[k])] = Rat(16, 10)
          /\ results.files[k].sprawlLevel = "severe"

\* C3: in the result a run delivers (returned by analyzeRepo, printed by
\* main) both averages are the arithmetic means of
\* cyclomaticComplexity and totalDebtScore over the records of the returned
\* list, and are 0 when the list is empty.
C3_AveragesAreMeans ==
    Delivered =>
        LET r == outcome.value
            n == Len(r.files)
            sumComplexity == SumRat([k \in 1..n |-> r.files[k].cyclomaticComplexity])
            sumDebt == SumRat([k \in 1..n |-> r.files[k].totalDebtScore])
        IN  IF n = 0
            THEN /\ r.summary.averageComplexity = RInt(0)
                 /\ r.summary.averageDebtScore = RInt(0)
            ELSE /\ RatMul(r.summary.averageComplexity, RInt(n)) = sumComplexity
                 /\ RatMul(r.summary.averageDebtScore, RInt(n)) = sumDebt

C3_Witness ==
    /\ Delivered
    /\ Len(outcome.value.files) = 2
    /\ outcome.value.summary.totalFiles = 3
    /\ outcome.value.files[1].totalDebtScore # outcome.value.files[2].totalDebtScore
    /\ ~RatLT(outcome.value.summary.averageComplexity, RInt(2))

\* C4: a file whose read throws gets no record and adds nothing to the count
\* or the sums; every file enumerated after it is still analyzed; the run
\* returns its result.
C4_PerFileFailureIsolated ==
    /\ results # Null =>
          /\ \A f \in Processed :
                /\ ~repo[f].readable => f \in errorLog /\ f \notin RecordPaths
                /\ Scorable(f) => f \in RecordPaths
          /\ Len(results.files) = Cardinality({f \in Processed : Scorable(f)})
          /\ results.summary.analyzedFiles = Len(results.files)
    /\ pc = "done" /\ results # Null =>
          /\ idx = Len(files) + 1
          /\ Delivered
          /\ outcome.value = results

C4_Witness ==
    /\ pc = "done"
    /\ Delivered
    /\ \E f, g \in 1..Len(repo) :
          /\ f < g
          /\ ~repo[f].readable
          /\ g \in RecordPaths

\* C5: at every step of the loop and at return, analyzedFiles is the length
\* of the files list and the two running sums are the sums over exactly the
\* records of that list.
C5_AggregatesMatchRecords ==
    results # Null =>
        /\ results.summary.analyzedFiles = Len(results.files)
        /\ totalComplexity =
               SumRat([k \in 1..Len(results.files) |->
                          results.files[k].cyclomaticComplexity])
        /\ totalDebt =
               SumRat([k \in 1..Len(results.files) |->
                          results.files[k].totalDebtScore])

C5_Witness ==
    /\ pc = "loop"
    /\ idx = 3
    /\ Len(results.files) = 1
    /\ Len(files) = 3
    /\ RatGT(totalDebt, RInt(0))

\* C6 as stated: in every execution of analyzeRepo the removal of the working directory is
\* performed exactly once, after the analysis has stopped and before the
\* caller receives the result or the error.
C6_RemovalExactlyOnce ==
    copy = "service" =>
        /\ outcome.kind # "none" => rmCalls = 1
        /\ rmCalls > 0 => pc \in {"settle", "done", "killed"}

\* C6 as amended: in every execution of analyzeRepo the cleanup block runs exactly once,
\* after the analysis has stopped and before the caller receives the result
\* or the error; it calls the removal at most once: once when the directory
\* exists at that point, not at all when it does not.
C6_CleanupExactlyOnce ==
    copy = "service" =>
        /\ cleanupRuns \in {0, 1}
        /\ outcome.kind # "none" => cleanupRuns = 1
        /\ cleanupRuns = 0 => rmCalls = 0 /\ pc \notin {"settle", "done"}
        /\ cleanupRuns = 1 =>
              /\ pc \in {"settle", "done", "killed"}
              /\ rmCalls = (IF existedAtCleanup THEN 1 ELSE 0)

C6_Witness ==
    /\ pc = "done"
    /\ outcome.kind = "throw"
    /\ cleanupRuns = 1
    /\ rmCalls = 1

\* C7: when the clone or the enumeration fails, the caller of analyzeRepo
\* receives no
\* result but the error of that failure, also when the cleanup fails.
C7_FatalFailurePropagates ==
    copy = "service" /\ pc = "done" /\ results = Null =>
        /\ outcome.kind = "throw"
        /\ outcome.value = Null
        /\ outcome.error \in {"cloneError", "globError"}
        /\ repo # <<>> => outcome.error = "globError"

C7_Witness ==
    /\ pc = "done"
    /\ outcome = Throw("globError")
    /\ rmCalls = 1
    /\ workDirExists

StructuralMetrics(content) ==
    LET ast == AcornParse(content)
    IN  [cyclomaticComplexity |-> Round2(calculateComplexityAST(ast)),
         responsibilityScore |-> Round2(calculateResponsibilityAST(ast)),
         couplingScore |-> Round2(calculateCouplingAST(ast))]

\* The values the text calculators give, rounded as in the record.
TextualMetrics(content) ==
    [cyclomaticComplexity |-> Round2(calculateComplexityRegex(content)),
     responsibilityScore |-> Round2(calculateResponsibilityRegex(content)),
     couplingScore |-> Round2(calculateCouplingRegex(content))]

ModeMetrics ==
    [c \in Contents |->
        IF AcornParse(c) # Null
        THEN StructuralMetrics(c) ELSE TextualMetrics(c)]

\* C9: in analyzeFile of the service copy (the copy with two modes)
\* complexity, responsibility and coupling of a record all come from the
\* structural calculators when the content parses, and all from the text
\* calculators when it does not.
C9_SingleMode ==
    copy = "service" /\ results # Null =>
        \A k \in 1..Len(results.files) :
            LET record == results.files[k]
                expected == ModeMetrics[ContentOf(record)]
            IN  /\ record.cyclomaticComplexity = expected.cyclomaticComplexity
                /\ record.metrics.responsibilityScore = expected.responsibilityScore
                /\ record.metrics.couplingScore = expected.couplingScore

C9_Witness ==
    /\ copy = "service"
    /\ pc = "done"
    /\ results # Null
    /\ \E j, k \in 1..Len(results.files) :
          /\ ContentOf(results.files[j]) = TsFile
          /\ ContentOf(results.files[k]) = ModuleFile
          /\ StructuralMetrics(ModuleFile).couplingScore
                 # TextualMetrics(ModuleFile).couplingScore

\* The paths of the scorable files of the repository, in order.
ScorablePaths ==
    SelectSeq([k \in 1..Len(repo) |-> k], Scorable)

\* C10: a failing line counter does not abort the run: once the files are
\* enumerated the run delivers its result, with the records and the summary that the
\* files alone determine, whether cloc succeeded or failed.
C10_ClocFailureHarmless ==
    pc = "done" /\ outcome.error \notin {"cloneError", "globError"} =>
        /\ Delivered
        /\ outcome.value.files =
               [k \in 1..Len(ScorablePaths) |->
                   FileScores[copy, repo[ScorablePaths[k]].content, ScorablePaths[k]]]
        /\ outcome.value.summary.totalFiles = Len(repo)
        /\ outcome.value.summary.analyzedFiles = Len(ScorablePaths)
        /\ outcome.value =
               WithAverages([outcome.value EXCEPT
                                !.summary.averageComplexity = RInt(0),
                                !.summary.averageDebtScore = RInt(0)],
                            totalComplexity, totalDebt)

C10_Witness ==
    /\ pc = "done"
    /\ results # Null
    /\ clocData = "empty"
    /\ Delivered
    /\ Len(outcome.value.files) >= 2

\* C11: within one run the clone, the enumeration and the line counter are
\* each invoked at most once, and every enumerated file is read at most once
\* and handed to analyzeFile at most once, also when its read failed; a run
\* that delivers has read the enumerated files once each, in order.
C11_NothingRetried ==
    /\ invocations.clone <= 1
    /\ invocations.glob <= 1
    /\ invocations.cloc <= 1
    /\ \A f \in 1..MaxFiles :
          /\ CountOf(invocations.read, f) <= 1
          /\ CountOf(invocations.analyze, f) <= 1
    /\ Delivered => invocations.read = files

C11_Witness ==
    /\ pc = "done"
    /\ Delivered
    /\ clocData = "empty"
    /\ invocations.cloc = 1
    /\ Len(files) = 3
    /\ ~repo[2].readable
    /\ invocations.read = <<1, 2, 3>>
    /\ invocations.analyze = <<1, 3>>

\* C12 as stated: a run killed at any point leaves no working directory on
\* disk.
C12_KillLeavesNoWorkDir ==
    pc = "killed" => ~workDirExists

\* C13 as stated: whatever way runDockerAnalysis ends, the analysis container
\* no longer exists when the call returns or throws, and the call has either
\* returned the parsed result or thrown an error.
C13_ContainerGoneOnCompletion ==
    hostPc = "done" =>
        /\ container # "running"
        /\ \/ /\ hostOutcome.kind = "return"
              /\ hostOutcome.value = results
           \/ /\ hostOutcome.kind = "throw"
              /\ hostOutcome.value = Null

\* C13 as amended: when runDockerAnalysis returns, the container has been
\* removed and the value is the result the engine printed; when it throws,
\* there is no result, and the container still exists only if the forced
\* removal of the catch block failed on it; the call ends in exactly one of
\* the two ways.
C13_ContainerGoneUnlessRemovalFailed ==
    hostPc = "done" =>
        /\ hostOutcome.kind \in {"return", "throw"}
        /\ hostOutcome.kind = "return" =>
              /\ container = "removed"
              /\ rmForced = "none"
              /\ outcome = Printed(hostOutcome.value)
        /\ hostOutcome.kind = "throw" =>
              /\ hostOutcome.value = Null
              /\ rmForced # "none"
              /\ container = "running" <=> rmForced = "failed"

C13_Witness ==
    /\ hostPc = "done"
    /\ hostOutcome = Throw("timeout")
    /\ rmForced = "removed"
    /\ container = "removed"
    /\ pc = "killed"
    /\ idx = 2

\* C14: the average debt score of a delivered result is the mean of the
\* files' full-precision adjusted scores; the rounding of the records does
\* not feed into it.
C14_AveragesFromFullPrecision ==
    (Delivered /\ results.summary.analyzedFiles > 0) =>
        results.summary.averageDebtScore =
            RatDiv(SumRat([k \in 1..Len(results.files) |->
                              AdjustedScores[copy, ContentOf(results.files[k])]]),
                   RInt(results.summary.analyzedFiles))

\* C16: in every record, sprawlScore is the rounded pre-entropy combination
\* and totalDebtScore the rounded product of it with (1 + entropy factor);
\* the two fields differ whenever the entropy factor is not zero.
C16_SprawlScoreIsPreEntropy ==
    results # Null =>
        \A k \in 1..Len(results.files) :
            LET record == results.files[k]
                content == ContentOf(record)
            IN  /\ record.sprawlScore = Round2(SprawlScores[copy, content])
                /\ record.totalDebtScore =
                       Round2(RatMul(SprawlScores[copy, content],
                                     RatAdd(RInt(1), EntropyFactors[content])))
                /\ EntropyFactors[content] # RInt(0) =>
                       record.sprawlScore # record.totalDebtScore

\* The number of lines of the content under the calculators that are of
\* one of the given kinds.
LinesOf(kinds) ==
    Cardinality({i \in 1..Len(input) : input[i] \in kinds})

\* The lines of a content with that text: content.split('\n').length.
InputLineCount ==
    IF input = <<>> THEN 1 ELSE Len(input)

\* C15: the entropy factor of a content is min(0.5, 0.5 * patternCount /
\* lineCount + 0.3 * c), c being the share of the most common
\* parameter-count bucket among the signatures when there are more than 3
\* of them and 0 otherwise; it lies in [0, 0.5], parsed or not.
C15_EntropyFactorFormula ==
    scores # Null =>
        LET patternCount ==
                SumInt([i \in 1..Len(input) |->
                    Len(SelectSeq(RegexHits(input[i]),
                                  LAMBDA h : \E k \in 1..Len(AiPatterns) :
                                                 AiPatterns[k] = h))])
            signatures ==
                Flatten([i \in 1..Len(input) |->
                    FunctionSignatures(input[i]) \o ArrowFunctions(input[i])])
            counts == [i \in 1..Len(signatures) |-> ParamCount(signatures[i])]
            largest ==
                MaxOf({CountOf(counts, counts[i]) : i \in 1..Len(counts)})
            c == IF Len(signatures) > 3
                 THEN Rat(largest, Len(signatures)) ELSE RInt(0)
            sum == RatAdd(Rat(patternCount, 2 * InputLineCount),
                          RatMul(Rat(3, 10), c))
        IN  /\ scores.aiEntropyFactor = RatMin(Rat(1, 2), sum)
            /\ ~RatGT(scores.aiEntropyFactor, Rat(1, 2))
            /\ ~RatLT(scores.aiEntropyFactor, RInt(0))

C15_Witness ==
    /\ scores # Null
    /\ input = <<"func", "func", "func", "arrow", "anys">>
    /\ ~scores.parsed
    /\ scores.aiEntropyFactor = Rat(1, 2)

\* C17: in every copy the raw complexity of a file is 1 plus its decision
\* points and complexityScore is a tenth of it, whatever the length of the
\* file; a file with one `if` and no other decision point has
\* cyclomaticComplexity 2 and complexityScore 0.2.
C17_ComplexityIndependentOfLength ==
    (scores # Null /\ scores.analysis # Null) =>
        \A c \in AnalyzerCopies :
            LET raw == IF scores.parsed /\ c # "container"
                       THEN scores.complexityAST ELSE scores.complexityRegex
            IN  /\ scores.analysis.cyclomaticComplexity[c] = raw
                /\ scores.analysis.complexityScore[c] = RatDiv(raw, RInt(10))
                /\ (LinesOf({"if"}) = 1 /\ LinesOf({"if", "stmt"}) = Len(input)) =>
                      /\ scores.analysis.cyclomaticComplexity[c] = RInt(2)
                      /\ scores.analysis.complexityScore[c] = Rat(2, 10)

\* The external names the content mentions.
ExternalNames ==
    UNION {ExternalRefs(input[i]) : i \in 1..Len(input)}

NormalizedEligible ==
    LET eligible ==
            SelectSeq(input, LAMBDA l : /\ Length(Trim(l)) > 10
                                        /\ l \notin {"todo", "anys", "import",
                                                     "importbare"})
    IN  [i \in 1..Len(eligible) |-> CollapseWs(Trim(eligible[i]))]

\* C19: duplicationRatio is (eligible lines - distinct normalized eligible
\* lines) / eligible lines: 0 without eligible lines or when they all
\* differ, (n-1)/n when all n are equal, and always in [0, 1).
C19_DuplicationRatioFormula ==
    scores # Null =>
        LET n == Len(NormalizedEligible)
            distinct == Cardinality({NormalizedEligible[i] : i \in 1..n})
        IN  /\ n = 0 => scores.duplicationRatio = RInt(0)
            /\ n > 0 => scores.duplicationRatio = Rat(n - distinct, n)
            /\ distinct = n => scores.duplicationRatio = RInt(0)
            /\ (n > 0 /\ distinct = 1) => scores.duplicationRatio = Rat(n - 1, n)
            /\ RatLT(scores.duplicationRatio, RInt(1))
            /\ ~RatLT(scores.duplicationRatio, RInt(0))

C19_Witness ==
    /\ scores # Null
    /\ input = <<"stmt", "long", "longws", "nested", "import">>
    /\ scores.duplicationRatio = Rat(2, 3)

\* Files of the constructs of C20, and plain statements.
SimpleKinds ==
    {"stmt", "if", "elseif", "ifand", "ifor", "for", "while", "switch",
     "ternary", "ternary2", "import", "importbare", "require", "dynreq"}

C21_EligibleLines ==
    scores # Null =>
        LET eligible ==
                SelectSeq(input, LAMBDA l :
                    /\ Length(CollapseWs(Trim(l))) >= 11
                    /\ l \notin {"todo", "anys", "blockcomment"}
                    /\ l \notin {"import", "importbare", "require", "dynreq"})
            normalized == [i \in 1..Len(eligible) |-> CollapseWs(Trim(eligible[i]))]
            n == Len(normalized)
            distinct == Cardinality({normalized[i] : i \in 1..n})
        IN  scores.duplicationRatio =
                (IF n = 0 THEN RInt(0) ELSE Rat(n - distinct, n))

\* C22: the adjusted score of a scored file is (0.25 size + 0.30 complexity
\* + 0.20 duplication + 0.15 responsibility + 0.10 coupling) * (1 + entropy
\* factor); five equal sub-metrics v give the combination v; and
\* combination <= adjusted <= 1.5 * combination.
C22_WeightedCombination ==
    (scores # Null /\ scores.analysis # Null) =>
        LET a == scores.analysis
            subMetrics == <<a.normalizedLOC, a.complexityScore["service"],
                            scores.duplicationRatio, a.responsibilityScore,
                            a.couplingScore>>
            coefficients == <<Rat(25, 100), Rat(30, 100), Rat(20, 100),
                              Rat(15, 100), Rat(10, 100)>>
            sprawl == SumRat([i \in 1..5 |-> RatMul(coefficients[i], subMetrics[i])])
        IN  /\ a.sprawlScore = sprawl
            /\ a.adjustedSprawlScore =
                   RatMul(sprawl, RatAdd(RInt(1), scores.aiEntropyFactor))
            /\ ~RatLT(a.adjustedSprawlScore, sprawl)
            /\ ~RatGT(a.adjustedSprawlScore, RatMul(Rat(3, 2), sprawl))
            /\ (\A i \in 1..5 : subMetrics[i] = subMetrics[1]) =>
                   sprawl = subMetrics[1]

C22_Witness ==
    /\ scores # Null
    /\ input = EvenLines
    /\ scores.analysis.normalizedLOC = Rat(3, 5)
    /\ scores.analysis.sprawlScore = Rat(3, 5)
    /\ scores.analysis.adjustedSprawlScore = Rat(37, 60)

\* The weighted count of the responsibility-bearing constructs the
\* calculator of the mode in use finds, in tenths.
WeightedCount ==
    IF scores.parsed
    THEN SumInt([i \in 1..Len(input) |->
             SumInt([j \in 1..Len(Nodes(input[i])) |->
                        ResponsibilityVisitor(Nodes(input[i])[j])])])
    ELSE SumInt([i \in 1..Len(input) |->
             5 * CountOf(RegexHits(input[i]), "functionDef")
             + 3 * CountOf(RegexHits(input[i]), "http")
             + 2 * CountOf(RegexHits(input[i]), "state")])

\* C23: in both modes responsibilityScore is max(1, weighted count) / 2, at
\* least 0.5, and the too-many-responsibilities flag is set exactly when the
\* weighted count exceeds 3.
C23_ResponsibilityFloorAndFlag ==
    (scores # Null /\ scores.analysis # Null) =>
        LET a == scores.analysis
        IN  /\ a.responsibilityScore =
                   (IF WeightedCount < 10 THEN Rat(1, 2) ELSE Rat(WeightedCount, 20))
            /\ ~RatLT(a.responsibilityScore, Rat(1, 2))
            /\ a.record.details.hasTooManyResponsibilities <=> WeightedCount > 30

C23_Witness ==
    /\ scores # Null
    /\ input = <<"funcs3", "class", "classm1", "classm2", "thisassign">>
    /\ scores.parsed
    /\ scores.analysis.responsibilityScore = Rat(71, 20)
    /\ scores.analysis.record.details.hasTooManyResponsibilities

\* C24: in structural mode the weighted count is 0.5 per function or arrow
\* function definition, 1.0 per class definition, 0.3 per method definition
\* and 0.2 per assignment to a member of this: one class with m methods
\* counts 1.0 + 0.3 m.
C24_StructuralWeights ==
    (scores # Null /\ scores.parsed) =>
        LET count ==
                5 * (LinesOf({"func", "func2", "arrow"}) + 3 * LinesOf({"funcs3"}))
                + 10 * LinesOf({"class", "classm1", "classm2"})
                + 3 * (LinesOf({"classm1"}) + 2 * LinesOf({"classm2"}))
                + 2 * LinesOf({"thisassign"})
        IN  scores.responsibilityAST =
                (IF count < 10 THEN Rat(1, 2) ELSE Rat(count, 20))

\* C25 as stated: the level of a record is the level of its reported
\* totalDebtScore under the thresholds 0.8, 1.2, 1.6.
C25_LevelAgreesWithReportedScore ==
    (scores # Null /\ scores.analysis # Null) =>
        LET record == scores.analysis.record
        IN  record.sprawlLevel =
                (IF RatLT(record.totalDebtScore, Rat(8, 10)) THEN "clean"
                 ELSE IF RatLT(record.totalDebtScore, Rat(12, 10)) THEN "mild"
                 ELSE IF RatLT(record.totalDebtScore, Rat(16, 10)) THEN "high"
                 ELSE "severe")

\* C25 as amended: the level of a record is the level of the unrounded
\* adjusted score; the reported totalDebtScore is that score rounded to 2
\* decimals, so the record's level is below the level of the reported score
\* exactly when the score was rounded up onto a threshold.
C25_LevelOfUnroundedScore ==
    (scores # Null /\ scores.analysis # Null) =>
        LET record == scores.analysis.record
            adjusted == scores.analysis.adjustedSprawlScore
            LevelOf(x) ==
                IF RatLT(x, Rat(8, 10)) THEN "clean"
                ELSE IF RatLT(x, Rat(12, 10)) THEN "mild"
                ELSE IF RatLT(x, Rat(16, 10)) THEN "high"
                ELSE "severe"
        IN  /\ record.sprawlLevel = LevelOf(adjusted)
            /\ record.totalDebtScore = Round2(adjusted)
            /\ record.sprawlLevel # LevelOf(record.totalDebtScore) <=>
                   /\ record.totalDebtScore \in {Rat(8, 10), Rat(12, 10), Rat(16, 10)}
                   /\ RatLT(adjusted, record.totalDebtScore)

C25_Witness ==
    /\ scores # Null
    /\ input = NearMildLines
    /\ scores.analysis.adjustedSprawlScore = Rat(239, 300)
    /\ scores.analysis.record.totalDebtScore = Rat(8, 10)
    /\ scores.analysis.record.sprawlLevel = "clean"

\* C30: the line count of a content is its newline characters plus one, at
\* least 1; the floor of 5 lines, the size metric, the long-function flag
\* and the denominator of the entropy factor all use it; four lines each
\* ended by a newline count 5 and are scored.
C30_LineCountIsNewlinesPlusOne ==
    scores # Null =>
        LET n == CountOf(Text(input), "\n") + 1
            patternCount == LinesOf({"todo"}) + 3 * LinesOf({"anys"})
        IN  /\ scores.loc = n
            /\ n >= 1
            /\ scores.analysis = Null <=> n < 5
            /\ scores.analysis # Null =>
                  /\ scores.analysis.record.loc = n
                  /\ scores.analysis.normalizedLOC = Rat(n, 30)
                  /\ scores.analysis.record.details.hasLongFunctions <=> n > 50
            /\ LinesOf({"func", "func2", "arrow", "funcs3"}) = 0 =>
                  scores.aiEntropyFactor = RatMin(Rat(1, 2), Rat(patternCount, 2 * n))

C30_Witness ==
    /\ scores # Null
    /\ input = FourTerminatedLines
    /\ scores.loc = 5
    /\ scores.analysis # Null
    /\ scores.analysis.record.loc = 5

\* C26: two calls of analyzeRepo that are active at the same time never
\* have the same working directory, and no call removes the directory
\* another call is cloning into or reading.
C26_DistinctWorkDirs ==
    /\ \A r1, r2 \in Runs :
          (/\ r1 # r2
           /\ runPc[r1] \in {"clone", "cloning", "reading", "finally"}
           /\ runPc[r2] \in {"clone", "cloning", "reading", "finally"}) =>
              workDir[r1] # workDir[r2]
    /\ interfered = {}

\* C27: the status of a scan only moves PENDING -> RUNNING -> COMPLETED or
\* RUNNING -> FAILED (COMPLETED and FAILED are never left); it becomes
\* COMPLETED only after every record and the summary have been stored, and
\* never after the analysis has thrown.
C27_StatusTransitions ==
    [][scanStatus' # scanStatus =>
          /\ <<scanStatus, scanStatus'>> \in
                 {<<"none", "PENDING">>, <<"PENDING", "RUNNING">>,
                  <<"RUNNING", "COMPLETED">>, <<"RUNNING", "FAILED">>}
          /\ scanStatus' = "COMPLETED" =>
                 /\ stored = analysisResults
                 /\ summaryStored
                 /\ ~analysisThrew]_vars

C29_RowsMatchStatus ==
    /\ scanStatus = "FAILED" => rows = 0
    /\ scanStatus = "COMPLETED" => rows = analysisResults

====
